---- MODULE Spec2Model ----
(***************************************************************************)
(* A model of fastbrew: the resume state machine (internal/resume), the    *)
(* resumable downloader (internal/brew/bottle.go), the install pipeline    *)
(* (installFormulae, linkParallel) and the link farm (internal/brew/       *)
(* linker.go).  Each subsystem has its own specification over the shared   *)
(* variables; the variables of the other subsystems stay at their idle     *)
(* values.                                                                 *)
(***************************************************************************)
EXTENDS Integers, Sequences, FiniteSets, TLC

VARIABLES
    tracker,   \* resume.StateTracker: [CurrentState, History]
    mpd,       \* an in-memory resume.PartialDownload driven through UpdateState
    req,       \* the last Transition / UpdateState call: [op, from, to, err]
    file,      \* the destination file on disk: <<>> absent, <<bytes>> present
    sidecar,   \* the resume sidecar of the destination: <<>> absent, <<pd>> present
    pc,        \* position of the DownloadWithProgress call in progress
    dl,        \* the locals of the DownloadWithProgress call in progress
    ret,       \* what the last DownloadWithProgress call returned
    pinned,    \* the package names in the pinned file
    catalog,   \* the formula catalog: name -> its list of dependencies
    bottle,    \* the files of each formula's bottle, as <<dir, rel>> pairs
    cellar,    \* <Cellar>/<name>: <<>> absent, <<versions>> its version directories
    cache,     \* names whose bottle archive is in the cache directory
    prefix,    \* the prefix tree: path -> [kind, target]
    inst,      \* the locals of the installFormulae / linkParallel call
    warnings,  \* the conflict warnings printed by linkParallel
    op,        \* the last Link / Unlink call: [kind, name, err]
    retry,     \* the retry.Do / retry.WithResult call in progress
    progress,  \* the progress Manager: its events channel, the EventBus, the callers
    sec,       \* a SafeEventChannel and the goroutines calling Send and Close
    search,    \* the PrefixIndex: its items and the last search
    maint,     \* the disk and environment the doctor and the cache validation look at
    ext,       \* per package: the ExtractAndInstallBottle call and the keg it writes
    client     \* a brew.Client and its cache directory: catalogs, derived files, the index

vars == <<tracker, mpd, req, file, sidecar, pc, dl, ret,
          pinned, catalog, bottle, cellar, cache, prefix, inst, warnings, op,
          retry, progress, sec, search, maint, ext, client>>
smVars == <<tracker, mpd, req>>
dlVars == <<file, sidecar, pc, dl, ret>>
pkgVars == <<pinned, catalog, bottle, cellar, cache, prefix, inst, warnings, op>>
svcVars == <<retry, progress, sec, search, maint, ext, client>>

(***************************************************************************)
(* Bounds                                                                  *)
(***************************************************************************)
\* largest DownloadState value handed to the state machine (3 is the last
\* declared state; larger values are undeclared states)
MaxStateValue == 4
\* longest state history kept by the state-machine harness
MaxHistory == 4
\* longest body a server sends, in chunks
MaxBody == 2
\* longest state history a sidecar reaches before no further download starts
MaxSidecarHistory == 5
\* longest dependency list of a formula
MaxDeps == 2
\* most packages named on one install command line
MaxRequested == 2
\* most entries of the prefix tree written by something other than fastbrew
MaxForeign == 1
\* largest Config.MaxAttempts handed to the retry wrapper (DefaultConfig has 3)
MaxRetryAttempts == 3

(***************************************************************************)
(* internal/resume/state.go                                                *)
(***************************************************************************)
StatePending == 0
StateInProgress == 1
StateComplete == 2
StateFailed == 3

DownloadState == {StatePending, StateInProgress, StateComplete, StateFailed}

\* the error value nil
Nil == "nil"

\* DownloadState.String
String(ds) ==
    CASE ds = StatePending -> "pending"
      [] ds = StateInProgress -> "in_progress"
      [] ds = StateComplete -> "complete"
      [] ds = StateFailed -> "failed"
      [] OTHER -> "unknown"

\* ParseState
ParseState(s) ==
    CASE s = "pending" -> StatePending
      [] s = "in_progress" -> StateInProgress
      [] s = "complete" -> StateComplete
      [] s = "failed" -> StateFailed
      [] OTHER -> StateFailed

\* a plausible slip: a completed download may be restarted
validTransitions_restartComplete ==
    [s \in DownloadState |->
        CASE s = StatePending -> <<StateInProgress, StateFailed>>
          [] s = StateInProgress -> <<StateComplete, StateFailed, StatePending>>
          [] s = StateComplete -> <<StatePending>>
          [] s = StateFailed -> <<StatePending, StateInProgress>>]

\* a plausible slip: a transfer in progress cannot be marked failed
validTransitions_noFailure ==
    [s \in DownloadState |->
        CASE s = StatePending -> <<StateInProgress, StateFailed>>
          [] s = StateInProgress -> <<StateComplete, StatePending>>
          [] s = StateComplete -> <<>>
          [] s = StateFailed -> <<StatePending, StateInProgress>>]

validTransitions ==
    [s \in DownloadState |->
        CASE s = StatePending -> <<StateInProgress, StateFailed>>
          [] s = StateInProgress -> <<StateComplete, StateFailed, StatePending>>
          [] s = StateComplete -> <<>>
          [] s = StateFailed -> <<StatePending, StateInProgress>>]

ValidateStateTransition(from, to) ==
    IF from = to THEN Nil
    ELSE IF from \notin DOMAIN validTransitions THEN "invalid current state"
    ELSE IF \E i \in 1..Len(validTransitions[from]) : validTransitions[from][i] = to
         THEN Nil
    ELSE "invalid state transition"

IsTerminalState(state) == state = StateComplete \/ state = StateFailed

\* a plausible slip: an interrupted (in_progress) sidecar counts as resumable
CanResume_inProgress(state) ==
    state = StateFailed \/ state = StatePending \/ state = StateInProgress

CanResume(state) == state = StateFailed \/ state = StatePending

\* a StateTransition record (the timestamp is not modelled)
StateTransition(from, to) == [FromState |-> from, ToState |-> to]

NewStateTracker(initialState) ==
    [CurrentState |-> initialState,
     History |-> <<StateTransition("", String(initialState))>>]

\* StateTracker.Transition: the tracker after the call and the error returned
Transition(st, to) ==
    LET err == ValidateStateTransition(st.CurrentState, to) IN
    IF err # Nil THEN [st |-> st, err |-> err]
    ELSE [st |-> [CurrentState |-> to,
                  History |-> Append(st.History,
                                     StateTransition(String(st.CurrentState), String(to)))],
          err |-> Nil]

(***************************************************************************)
(* internal/resume/resume.go                                               *)
(***************************************************************************)
\* the PartialDownload built by ResumeManager.Create
NewPartialDownload(url) ==
    [URL |-> url, TotalSize |-> 0, DownloadedBytes |-> 0, State |-> StatePending,
     LastModified |-> "", ETag |-> "",
     StateHistory |-> <<StateTransition("", String(StatePending))>>]

\* PartialDownload.UpdateState: the record after the call and the error returned
UpdateState(pd, newState) ==
    LET err == ValidateStateTransition(pd.State, newState) IN
    IF err # Nil THEN [pd |-> pd, err |-> err]
    ELSE [pd |-> [pd EXCEPT !.StateHistory =
                                Append(@, StateTransition(String(pd.State), String(newState))),
                            !.State = newState],
          err |-> Nil]

IsComplete(pd) == pd.State = StateComplete

IsValid(pd) == pd.State # StateFailed /\ pd.DownloadedBytes <= pd.TotalSize

(***************************************************************************)
(* Packages, kegs and the prefix tree                                      *)
(***************************************************************************)
Names == {"a", "b", "c"}

\* Versions.Stable of every formula of the catalog
StableVersion == "v1"

\* linkDirs of linkInternal and Unlink (without the darwin Frameworks)
LinkDirs == <<"bin", "sbin", "lib", "include", "share", "etc">>

\* the file names of the bottles, in the lexical order filepath.Walk visits them
RelNames == <<"bar", "foo">>

\* <<dir, rel>> pairs in the order linkInternal reaches them
WalkOrder ==
    [i \in 1..(Len(LinkDirs) * Len(RelNames)) |->
        <<LinkDirs[((i - 1) \div Len(RelNames)) + 1],
          RelNames[((i - 1) % Len(RelNames)) + 1]>>]

LinkPaths == {WalkOrder[i] : i \in DOMAIN WalkOrder}
OptPaths == {<<"opt", n>> : n \in Names}
PrefixPaths == LinkPaths \cup OptPaths

Absent == [kind |-> "absent", target |-> <<>>]
RegularFile == [kind |-> "file", target |-> <<>>]
Symlink(target) == [kind |-> "symlink", target |-> target]

\* filepath.Join(c.Prefix, "Cellar", name, version) and a file below it
CellarPath(name, version) == <<"Cellar", name, version>>
KegFile(name, version, path) == <<"Cellar", name, version, path[1], path[2]>>

EmptyPrefix == [p \in PrefixPaths |-> Absent]

\* a goroutine of the parallel link phase that has not started: the system
\* call it is at, the entries of the walk still to come, what its last Lstat
\* found, and the Success and Errors of its LinkResult
NoWorker ==
    [pc |-> "none", walk |-> <<>>, seen |-> FALSE, Success |-> TRUE, Errors |-> <<>>]

IdleInst ==
    [phase |-> "idle", packages |-> <<>>, queue |-> <<>>, pending |-> {},
     failed |-> {}, parallel |-> {}, sequential |-> <<>>,
     tracker |-> [binaries |-> {}, conflicts |-> <<>>],
     seqTracker |-> [binaries |-> {}, conflicts |-> <<>>],
     summary |-> {}, result |-> "none", inflight |-> {}, maxParallel |-> 0,
     cancel |-> FALSE, downloaded |-> {}, staged |-> {},
     workers |-> [n \in Names |-> NoWorker]]

NoOp == [kind |-> "none", name |-> "", err |-> Nil]

\* the package variables while only the downloader or the state machine runs
PackagesIdle ==
    /\ pinned = {}
    /\ catalog = [n \in Names |-> <<>>]
    /\ bottle = [n \in Names |-> {}]
    /\ cellar = [n \in Names |-> <<>>]
    /\ cache = {}
    /\ prefix = EmptyPrefix
    /\ inst = IdleInst
    /\ warnings = <<>>
    /\ op = NoOp

\* no error, and the error err
NoError == <<>>
Error(err) == <<err>>

\* the retry wrapper before a call
IdleRetry ==
    [form |-> "none", MaxAttempts |-> 0, pc |-> "idle", attempt |-> 0,
     calls |-> 0, waits |-> 0, outcomes |-> <<>>, lastErr |-> NoError,
     cancelled |-> FALSE, cancelledAt |-> "never", callsAtCancel |-> 0,
     err |-> NoError, result |-> 0]

\* a Go channel of capacity cap
MakeChan(cap) == [buf |-> <<>>, cap |-> cap, closed |-> FALSE]

\* subscriber ids of the EventBus
SubIds == {"s1", "s2"}

\* NewManagerWithBuffer(0) before any call
IdleProgress ==
    [events |-> MakeChan(0),
     channels |-> [id \in SubIds |-> <<>>],
     tracker |-> [pc |-> "idle", event |-> "none"],
     router |-> [pc |-> "receive", event |-> "none", todo |-> {}],
     last |-> [op |-> "none", full |-> FALSE]]

\* goroutines that call Send and Close on one SafeEventChannel
Goroutines == {"g1", "g2"}

\* NewSafeEventChannel(0) before any call
IdleGoroutine ==
    [pc |-> "idle", op |-> "none", event |-> "none", ret |-> "none", afterClose |-> FALSE]

IdleSec ==
    [ch |-> MakeChan(0), closed |-> FALSE, mu |-> "free", panicked |-> FALSE,
     closeReturned |-> FALSE, g |-> [x \in Goroutines |-> IdleGoroutine]]

\* NewPrefixIndex() before BuildIndex
IdleSearch ==
    [items |-> <<>>, prefixes |-> <<>>, op |-> "none", q |-> <<>>,
     found |-> <<>>, matches |-> <<>>]

\* the results of the doctor's nine checks, none yet
NoResults == <<>>

\* no ExtractAndInstallBottle call in progress, no keg of the stable version
\* written by one; read counts the entries of the archive unpacked so far,
\* tree is <<>> when <Cellar>/<name>/<version> is absent and <<files>> when
\* it is there
IdleExtract == [pc |-> "idle", read |-> 0, staged |-> {}, err |-> "nil", tree |-> <<>>]
IdleExt == [n \in Names |-> IdleExtract]

\* the files of the cache directory that the search reads and writes
CacheFiles == {"formula.json.zst", "cask.json.zst", "search.gob.zst", "prefix_index.gob"}

\* no call on the client yet
NoCall == [op |-> "none", err |-> "nil", items |-> <<>>, index |-> <<>>, cached |-> FALSE]

\* a new Client on an empty cache directory at time 0: the revisions of the
\* two catalogs upstream, the files of the cache directory (<<>> absent,
\* <<[mtime, data]>> present), indexOnce and prefixIndex, how the first
\* GetPrefixIndex call of the client ended, and the last call
IdleClient ==
    [now |-> 0,
     upstream |-> [formula |-> 0, cask |-> 0],
     disk |-> [f \in CacheFiles |-> <<>>],
     indexOnce |-> FALSE,
     prefixIndex |-> <<>>,
     first |-> "none",
     call |-> NoCall]

\* a disk without a cache directory, seen by no maintenance command yet
IdleMaint ==
    [env |-> [install |-> "ok", broken |-> FALSE, stale |-> FALSE,
              unlinked |-> FALSE, path |-> "first", home |-> TRUE],
     cacheDir |-> FALSE,
     files |-> [f \in {"formula.json.zst", "cask.json.zst", "search.gob.zst"} |-> "absent"],
     tarball |-> FALSE,
     op |-> "none", results |-> NoResults, exit |-> <<>>, invalid |-> {}]

\* the retry wrapper, the progress bus, the prefix index and the maintenance
\* commands while another subsystem runs
ServicesIdle ==
    /\ retry = IdleRetry
    /\ maint = IdleMaint
    /\ ext = IdleExt
    /\ client = IdleClient
    /\ progress = IdleProgress
    /\ sec = IdleSec
    /\ search = IdleSearch

(***************************************************************************)
(* The state machine driven directly: any state may be requested of a      *)
(* StateTracker and of an in-memory PartialDownload.                       *)
(***************************************************************************)
NoReq == [op |-> "none", from |-> StatePending, to |-> StatePending, err |-> Nil]

IdleDL ==
    [url |-> "", sha |-> 0, pd |-> <<>>, startByte |-> 0, downloaded |-> 0,
     append |-> FALSE, range |-> -1, status |-> 0, contentLength |-> 0,
     contentRange |-> -1, body |-> <<>>, lastModified |-> "", etag |-> ""]

\* the result of a call: its outcome, its arguments and the in-memory sidecar
\* record it held when it returned
NoRet == [status |-> "none", err |-> "nil", url |-> "", sha |-> 0, pd |-> <<>>]

\* the download variables while only the state machine is driven
DownloadIdle ==
    /\ file = <<>> /\ sidecar = <<>> /\ pc = "idle" /\ dl = IdleDL /\ ret = NoRet

InitStateMachine ==
    /\ \E s \in 0..MaxStateValue : tracker = NewStateTracker(s)
    /\ mpd = NewPartialDownload("u1")
    /\ req = NoReq
    /\ DownloadIdle
    /\ ServicesIdle
    /\ PackagesIdle

TrackerTransition(to) ==
    /\ Len(tracker.History) < MaxHistory
    /\ LET r == Transition(tracker, to) IN
       /\ tracker' = r.st
       /\ req' = [op |-> "Transition", from |-> tracker.CurrentState, to |-> to, err |-> r.err]
    /\ UNCHANGED <<mpd, dlVars, pkgVars, svcVars>>

PartialUpdateState(to) ==
    /\ Len(mpd.StateHistory) < MaxHistory
    /\ LET r == UpdateState(mpd, to) IN
       /\ mpd' = r.pd
       /\ req' = [op |-> "UpdateState", from |-> mpd.State, to |-> to, err |-> r.err]
    /\ UNCHANGED <<tracker, dlVars, pkgVars, svcVars>>

NextStateMachine ==
    \/ \E to \in 0..MaxStateValue : TrackerTransition(to)
    \/ \E to \in 0..MaxStateValue : PartialUpdateState(to)

SpecStateMachine == InitStateMachine /\ [][NextStateMachine]_vars

\* an edge of the download state graph of the specification
GraphEdge(from, to) ==
    \/ from = StatePending /\ to \in {StateInProgress, StateFailed}
    \/ from = StateInProgress /\ to \in {StateComplete, StateFailed, StatePending}
    \/ from = StateFailed /\ to \in {StatePending, StateInProgress}

\* C1: every state change accepted by UpdateState or Transition is an edge of
\* the download state graph, and a requested change that is not an edge is
\* rejected with an error and leaves the state as it was.
C1_AcceptedChangesFollowGraph ==
    [][ /\ tracker'.CurrentState # tracker.CurrentState
           => GraphEdge(tracker.CurrentState, tracker'.CurrentState)
        /\ mpd'.State # mpd.State => GraphEdge(mpd.State, mpd'.State)
        /\ (req'.op = "Transition" /\ req'.to # tracker.CurrentState
              /\ ~GraphEdge(tracker.CurrentState, req'.to))
           => (req'.err # Nil /\ tracker' = tracker)
        /\ (req'.op = "UpdateState" /\ req'.to # mpd.State
              /\ ~GraphEdge(mpd.State, req'.to))
           => (req'.err # Nil /\ mpd' = mpd)
      ]_vars

\* C1 witness: the tracker went Pending -> InProgress -> Complete and a
\* change out of Complete was then requested and rejected.
C1_Witness ==
    /\ Len(tracker.History) = 3
    /\ tracker.CurrentState = StateComplete
    /\ req.op = "Transition" /\ req.from = StateComplete /\ req.to = StatePending
    /\ req.err # Nil

(***************************************************************************)
(* internal/brew/bottle.go: the resumable downloader, one destination      *)
(***************************************************************************)
Bytes == {0, 1}

\* the byte strings a file or a response body can hold
Contents == UNION {[1..n -> Bytes] : n \in 0..MaxBody}

URLs == {"u1", "u2"}

\* sha256.Sum over a byte string: a collision-free digest of the content
\* (the bijective base-3 numeral of the bytes)
RECURSIVE Sha256(_)
Sha256(content) ==
    IF content = <<>> THEN 0
    ELSE 3 * Sha256(SubSeq(content, 1, Len(content) - 1)) + content[Len(content)] + 1

\* a plausible slip: the digest comparison is dropped
verifyChecksum_noCompare(f, expected) ==
    IF f = <<>> THEN "open: no such file" ELSE Nil

\* verifyChecksum(path, expected) on the destination f
verifyChecksum(f, expected) ==
    IF f = <<>> THEN "open: no such file"
    ELSE IF Sha256(f[1]) # expected THEN "checksum mismatch"
    ELSE Nil

\* ResumeManager.Save / Load: the JSON document of the modelled fields
Save(pd) == <<pd>>
Load(sc) == sc[1]
\* ResumeManager.Exists
Exists(sc) == sc # <<>>

\* DownloadWithProgress up to the response (lines 105-158).  The caller passes
\* url and sha; the network answers with an error (sent = FALSE) or with a
\* response of the given status, Content-Length, Content-Range start, body
\* and validators (the Last-Modified and ETag headers).
DLBegin(url, sha, sent, status, cl, cr, body, hdr) ==
    /\ pc = "idle"
    /\ sidecar # <<>> => Len(Load(sidecar).StateHistory) < MaxSidecarHistory
    /\ IF file # <<>> /\ verifyChecksum(file, sha) = Nil
       THEN /\ ret' = [status |-> "ok", err |-> "nil", url |-> url, sha |-> sha, pd |-> <<>>]
            /\ UNCHANGED <<file, sidecar, pc, dl>>
       ELSE LET file1 == IF file # <<>> THEN <<>> ELSE file
                loaded == IF Exists(sidecar) THEN sidecar ELSE <<>>
                resumable == /\ Exists(sidecar)
                             /\ Load(sidecar).URL = url
                             /\ CanResume(Load(sidecar).State)
                pd == IF resumable THEN loaded ELSE <<>>
                startByte == IF resumable /\ file1 # <<>> THEN Len(file1[1]) ELSE 0
                sidecar1 == IF Exists(sidecar) /\ ~resumable THEN <<>> ELSE sidecar
                file2 == IF Exists(sidecar) /\ ~resumable THEN <<>> ELSE file1
                file3 == IF startByte > 0 THEN file2 ELSE << <<>> >>
            IN
            /\ file' = file3
            /\ sidecar' = sidecar1
            /\ IF sent
               THEN /\ pc' = "responded"
                    /\ dl' = [url |-> url, sha |-> sha, pd |-> pd,
                              startByte |-> startByte, downloaded |-> 0,
                              append |-> startByte > 0,
                              range |-> IF startByte > 0 THEN startByte ELSE -1,
                              status |-> status, contentLength |-> cl,
                              contentRange |-> IF status = 206 /\ cr >= 0
                                               THEN startByte + cr ELSE -1,
                              body |-> body,
                              lastModified |-> hdr.LastModified, etag |-> hdr.ETag]
                    /\ ret' = NoRet
               ELSE /\ pc' = "idle"
                    /\ dl' = IdleDL
                    /\ ret' = [status |-> "err", err |-> "request failed", url |-> url, sha |-> sha, pd |-> pd]
    /\ UNCHANGED <<smVars, pkgVars, svcVars>>

\* lines 160-209: the status checks, and rm.Create when no sidecar was loaded
DLResponse ==
    /\ pc = "responded"
    /\ LET ignored == dl.status = 200 /\ dl.startByte > 0
           sb1 == IF ignored THEN 0 ELSE dl.startByte
           mismatch == /\ dl.status = 206
                       /\ dl.contentRange # -1
                       /\ dl.contentRange # sb1
           sb2 == IF mismatch THEN 0 ELSE sb1
           file1 == IF ignored \/ mismatch THEN << <<>> >> ELSE file
       IN
       /\ file' = file1
       /\ IF dl.status # 200 /\ dl.status # 206
          THEN /\ pc' = "idle"
               /\ dl' = IdleDL
               /\ ret' = [status |-> "err", err |-> "download failed", url |-> dl.url, sha |-> dl.sha, pd |-> dl.pd]
               /\ UNCHANGED sidecar
          ELSE LET created == dl.pd = <<>> /\ ~Exists(sidecar)
                   pd1 == IF created THEN <<NewPartialDownload(dl.url)>> ELSE dl.pd
               IN
               /\ sidecar' = IF created THEN Save(pd1[1]) ELSE sidecar
               /\ dl' = [dl EXCEPT !.startByte = sb2, !.pd = pd1]
               /\ pc' = "created"
               /\ UNCHANGED ret
    /\ UNCHANGED <<smVars, pkgVars, svcVars>>

\* lines 206-223: total size, the move to in_progress, the first Save
DLMarkInProgress ==
    /\ pc = "created"
    /\ LET totalSize == dl.contentLength + dl.startByte
           pd1 == IF dl.pd = <<>> THEN <<>>
                  ELSE <<UpdateState([dl.pd[1] EXCEPT !.TotalSize = totalSize,
                                                      !.ETag = dl.etag,
                                                      !.LastModified = dl.lastModified],
                                     StateInProgress).pd>>
       IN
       /\ sidecar' = IF pd1 = <<>> THEN sidecar ELSE Save(pd1[1])
       /\ dl' = [dl EXCEPT !.pd = pd1, !.downloaded = dl.startByte]
    /\ pc' = "streaming"
    /\ UNCHANGED <<file, ret, smVars, pkgVars, svcVars>>

\* lines 225-241: one chunk read from the body and written to the file
DLReadChunk ==
    /\ pc = "streaming"
    /\ dl.body # <<>>
    /\ file' = <<Append(file[1], Head(dl.body))>>
    /\ dl' = [dl EXCEPT !.body = Tail(@), !.downloaded = @ + 1]
    /\ UNCHANGED <<sidecar, pc, ret, smVars, pkgVars, svcVars>>

\* the sidecar after a failed transfer (lines 229-233 and 246-250)
FailedSidecar ==
    IF dl.pd = <<>> THEN sidecar
    ELSE Save(UpdateState([dl.pd[1] EXCEPT !.DownloadedBytes = dl.downloaded],
                          StateFailed).pd)

\* lines 228-235: writing a chunk fails
DLWriteError ==
    /\ pc = "streaming"
    /\ dl.body # <<>>
    /\ sidecar' = FailedSidecar
    /\ pc' = "idle"
    /\ dl' = IdleDL
    /\ ret' = [status |-> "err", err |-> "write failed", url |-> dl.url, sha |-> dl.sha,
               pd |-> IF dl.pd = <<>> THEN <<>> ELSE FailedSidecar]
    /\ UNCHANGED <<file, smVars, pkgVars, svcVars>>

\* lines 245-252: reading the body fails; a body of known length ends with
\* EOF once all of it was read, a body of unknown length can still fail
DLReadError ==
    /\ pc = "streaming"
    /\ dl.body # <<>> \/ dl.contentLength = -1
    /\ sidecar' = FailedSidecar
    /\ pc' = "idle"
    /\ dl' = IdleDL
    /\ ret' = [status |-> "err", err |-> "read failed", url |-> dl.url, sha |-> dl.sha,
               pd |-> IF dl.pd = <<>> THEN <<>> ELSE FailedSidecar]
    /\ UNCHANGED <<file, smVars, pkgVars, svcVars>>

\* lines 242-277: EOF, the checksum, and the end of the sidecar
DLFinish ==
    /\ pc = "streaming"
    /\ dl.body = <<>>
    /\ IF verifyChecksum(file, dl.sha) # Nil
       THEN LET pd1 == IF dl.pd = <<>> THEN <<>>
                       ELSE <<UpdateState(dl.pd[1], StateFailed).pd>>
            IN
            /\ sidecar' = IF pd1 = <<>> THEN sidecar ELSE Save(pd1[1])
            /\ file' = <<>>
            /\ ret' = [status |-> "err", err |-> "checksum mismatch", url |-> dl.url, sha |-> dl.sha, pd |-> pd1]
       ELSE LET pd1 == IF dl.pd = <<>> THEN <<>>
                       ELSE <<UpdateState([dl.pd[1] EXCEPT !.DownloadedBytes = dl.downloaded],
                                          StateComplete).pd>>
            IN
            /\ sidecar' = IF pd1 = <<>> THEN sidecar ELSE <<>>
            /\ file' = file
            /\ ret' = [status |-> "ok", err |-> "nil", url |-> dl.url, sha |-> dl.sha, pd |-> pd1]
    /\ pc' = "idle"
    /\ dl' = IdleDL
    /\ UNCHANGED <<smVars, pkgVars, svcVars>>

\* the process is interrupted or killed in the middle of a download: the
\* disk stays as it is
DLCrash ==
    /\ pc # "idle"
    /\ pc' = "idle"
    /\ dl' = IdleDL
    /\ ret' = NoRet
    /\ UNCHANGED <<file, sidecar, smVars, pkgVars, svcVars>>

StateMachineIdle ==
    /\ tracker = NewStateTracker(StatePending)
    /\ mpd = NewPartialDownload("u1")
    /\ req = NoReq

InitDownload ==
    /\ StateMachineIdle
    /\ DownloadIdle
    /\ ServicesIdle
    /\ PackagesIdle

\* the Last-Modified and ETag headers of a response: none for revision 0 of
\* the file on the server, else those of the revision
Validators(rev) ==
    IF rev = 0 THEN [LastModified |-> "", ETag |-> ""]
    ELSE [LastModified |-> <<"modified", rev>>, ETag |-> <<"etag", rev>>]

\* the digests a caller expects: those of the non-empty bottles
ExpectedDigests == {Sha256(c) : c \in Contents \ {<<>>}}

\* the request fails before any response (httpClient.Do or the token fetch)
DLBeginNoResponse ==
    \E url \in URLs, sha \in ExpectedDigests :
        DLBegin(url, sha, FALSE, 0, 0, -1, <<>>, Validators(0))

\* the server answers with a status other than 200 and 206
DLBeginRefused ==
    \E url \in URLs, sha \in ExpectedDigests :
        DLBegin(url, sha, TRUE, 404, 0, -1, <<>>, Validators(0))

\* the server answers 200 with a body, its length announced or not
DLBeginOK ==
    \E url \in URLs, sha \in ExpectedDigests, body \in Contents, known \in BOOLEAN :
        DLBegin(url, sha, TRUE, 200, IF known THEN Len(body) ELSE -1, -1, body, Validators(1))

\* the server answers 206 with a body; Content-Range is absent (-1), starts
\* at the requested byte (0) or one byte later (1)
DLBeginPartial ==
    \E url \in URLs, sha \in ExpectedDigests, body \in Contents, known \in BOOLEAN,
       cr \in -1..1 :
        DLBegin(url, sha, TRUE, 206, IF known THEN Len(body) ELSE -1, cr, body, Validators(1))

NextDownload ==
    \/ DLBeginNoResponse
    \/ DLBeginRefused
    \/ DLBeginOK
    \/ DLBeginPartial
    \/ DLResponse
    \/ DLMarkInProgress
    \/ DLReadChunk
    \/ DLWriteError
    \/ DLReadError
    \/ DLFinish
    \/ DLCrash

SpecDownload == InitDownload /\ [][NextDownload]_vars

\* resume.CheckRemoteFileChanged, validation.go 91-109; pd is <<>> for nil
CheckRemoteFileChanged(pd, remoteLastModified, remoteETag) ==
    IF pd = <<>> THEN TRUE
    ELSE IF pd[1].LastModified # "" /\ remoteLastModified # ""
            /\ pd[1].LastModified # remoteLastModified THEN TRUE
    ELSE IF pd[1].ETag # "" /\ remoteETag # "" /\ pd[1].ETag # remoteETag THEN TRUE
    ELSE FALSE

\* the revisions of the file the server holds over time; 0: no validators sent
Revisions == {0, 1, 2}

\* one URL fetched again and again while the file on the server changes: the
\* server answers 200 with the whole file
FetchWhole ==
    \E sha \in ExpectedDigests, body \in Contents, rev \in Revisions :
        DLBegin("u1", sha, TRUE, 200, Len(body), -1, body, Validators(rev))

\* the server honours the Range header and answers 206 from the byte asked for
FetchRange ==
    \E sha \in ExpectedDigests, body \in Contents, rev \in Revisions :
        DLBegin("u1", sha, TRUE, 206, Len(body), 0, body, Validators(rev))

NextRevalidate ==
    \/ FetchWhole
    \/ FetchRange
    \/ DLResponse
    \/ DLMarkInProgress
    \/ DLReadChunk
    \/ DLReadError
    \/ DLFinish

SpecRevalidate == InitDownload /\ [][NextRevalidate]_vars

\* the transitions recorded in a state history, after the initial entry, are
\* edges of the state graph and chain one into the next
HistoryFollowsGraph(h) ==
    \A i \in 2..Len(h) :
        /\ h[i].FromState = h[i - 1].ToState
        /\ \E f \in DownloadState, t \in DownloadState :
              /\ String(f) = h[i].FromState
              /\ String(t) = h[i].ToState
              /\ GraphEdge(f, t)

\* C2: in every sidecar persisted on disk, every adjacent pair of
\* state_history after the initial entry into Pending is an edge of the state
\* graph.
C2_PersistedHistoryFollowsGraph ==
    Exists(sidecar) =>
        /\ Load(sidecar).StateHistory[1] = StateTransition("", "pending")
        /\ HistoryFollowsGraph(Load(sidecar).StateHistory)

\* C2 witness: a sidecar on disk that was reused by a second attempt after a
\* failed one (pending, in_progress, failed, in_progress, failed).
C2_Witness ==
    /\ Exists(sidecar)
    /\ Len(Load(sidecar).StateHistory) >= 5
    /\ Load(sidecar).State = StateFailed

\* C3: a download that starts with a resumable sidecar of the same url and a
\* partial destination file of n > 0 bytes requests Range: bytes=n-, opens the
\* file for append and keeps the n bytes.
C3_ResumesFromPartialFile ==
    [][ ( /\ pc = "idle" /\ pc' = "responded"
          /\ Exists(sidecar)
          /\ Load(sidecar).URL = dl'.url
          /\ CanResume(Load(sidecar).State)
          /\ file # <<>> /\ Len(file[1]) > 0 )
        => ( /\ dl'.startByte = Len(file[1])
             /\ dl'.append
             /\ dl'.range = Len(file[1])
             /\ file' = file )
      ]_vars

\* C4: DownloadWithProgress returns success only if the destination file
\* exists and its SHA-256 equals the expected digest.
C4_SuccessMeansVerifiedFile ==
    ret.status = "ok" => (file # <<>> /\ Sha256(file[1]) = ret.sha)

\* C4 witness: a download that reused the sidecar of an interrupted attempt
\* returned success with a non-empty file.
C4_Witness ==
    /\ ret.status = "ok"
    /\ ret.pd # <<>>
    /\ Len(ret.pd[1].StateHistory) >= 5
    /\ file # <<>> /\ Len(file[1]) = MaxBody

\* C5: every sidecar on disk has downloaded_bytes <= total_size whenever
\* total_size > 0, and a Complete sidecar has downloaded_bytes = total_size.
C5_DownloadedWithinTotal ==
    Exists(sidecar) =>
        /\ Load(sidecar).TotalSize > 0
              => Load(sidecar).DownloadedBytes <= Load(sidecar).TotalSize
        /\ Load(sidecar).State = StateComplete
              => Load(sidecar).DownloadedBytes = Load(sidecar).TotalSize

\* C6: whenever a download returns success, no resume sidecar of the
\* destination remains on disk.
C6_NoSidecarAfterSuccess ==
    ret.status = "ok" => ~Exists(sidecar)

(***************************************************************************)
(* internal/brew/linker.go                                                 *)
(***************************************************************************)
\* the files of the keg <Cellar>/<name>/<version>, as <<dir, rel>> pairs
KegPathsAt(cel, name, version) ==
    IF cel[name] # <<>> /\ version \in cel[name][1] THEN bottle[name] ELSE {}

KegPaths(name, version) == KegPathsAt(cellar, name, version)

\* the <<dir, rel>> pairs of a keg in the order the walk reaches them
WalkOf(keg) == SelectSeq(WalkOrder, LAMBDA p : p \in keg)

\* a plausible slip: an existing entry is kept and the link is skipped
linkEntry_keepExisting(existing, target) ==
    IF existing.kind # "absent" THEN existing ELSE Symlink(target)

\* linkDir, lines 106-113: an existing entry is removed, then the symlink is made
linkEntry(existing, target) == Symlink(target)

\* linkInternal on the cellar cel: the prefix tree after the call and the
\* LinkResult
linkInternalAt(cel, pf, name, version, dryRun) ==
    LET keg == KegPathsAt(cel, name, version)
        walk == WalkOf(keg)
        optLink == <<"opt", name>>
        optCleared == IF pf[optLink].kind = "symlink" THEN Absent ELSE pf[optLink]
        optOk == optCleared.kind = "absent"
    IN
    [prefix |-> IF dryRun THEN pf
                ELSE [p \in PrefixPaths |->
                        IF p = optLink
                        THEN IF optOk THEN Symlink(CellarPath(name, version)) ELSE optCleared
                        ELSE IF p \in keg
                        THEN linkEntry(pf[p], KegFile(name, version, p))
                        ELSE pf[p]],
     Binaries |-> [i \in DOMAIN walk |-> walk[i][2]],
     Success |-> dryRun \/ optOk]

linkInternal(pf, name, version, dryRun) == linkInternalAt(cellar, pf, name, version, dryRun)

Link(pf, name, version) == linkInternal(pf, name, version, FALSE)
LinkDryRun(pf, name, version) == linkInternal(pf, name, version, TRUE)

\* strings.HasPrefix(target, <Cellar>/<name>/)
HasCellarPrefix(target, name) ==
    Len(target) > 2 /\ target[1] = "Cellar" /\ target[2] = name

\* Unlink on the cellar cel: the prefix tree after the call and the error
\* returned; ReadDir of <Cellar>/<name> fails when the directory is missing
UnlinkAt(cel, pf, name) ==
    IF cel[name] = <<>> THEN [prefix |-> pf, err |-> "readdir: no such directory"]
    ELSE LET keg == IF cel[name][1] # {} THEN bottle[name] ELSE {}
             optLink == <<"opt", name>>
         IN
         [prefix |-> [p \in PrefixPaths |->
                        IF p = optLink
                        THEN IF pf[p].kind = "symlink" THEN Absent ELSE pf[p]
                        ELSE IF /\ p \in keg
                                /\ pf[p].kind = "symlink"
                                /\ HasCellarPrefix(pf[p].target, name)
                        THEN Absent
                        ELSE pf[p]],
          err |-> Nil]

\* Unlink: the prefix tree after the call and the error returned
Unlink(pf, name) == UnlinkAt(cellar, pf, name)

NewConflictTracker == [binaries |-> {}, conflicts |-> <<>>]

\* ConflictTracker.CheckAndTrack: the tracker after the call and the package returned
CheckAndTrack(ct, binary, pkg) ==
    IF \E e \in ct.binaries : e[1] = binary
    THEN LET existingPkg == (CHOOSE e \in ct.binaries : e[1] = binary)[2] IN
         [ct |-> IF existingPkg # pkg
                 THEN [ct EXCEPT !.conflicts =
                         Append(@, [BinaryName |-> binary, FirstPkg |-> existingPkg,
                                    SecondPkg |-> pkg])]
                 ELSE ct,
          ret |-> existingPkg]
    ELSE [ct |-> [ct EXCEPT !.binaries = @ \cup {<<binary, pkg>>}], ret |-> ""]

GetConflictingPackages(ct) ==
    {ct.conflicts[i].FirstPkg : i \in DOMAIN ct.conflicts}
        \cup {ct.conflicts[i].SecondPkg : i \in DOMAIN ct.conflicts}

\* CheckAndTrack over the Binaries of one package: the tracker and the
\* warnings of the sequential phase (lines 527-532)
RECURSIVE TrackBinaries(_, _, _, _)
TrackBinaries(ct, binaries, pkg, warned) ==
    IF binaries = <<>> THEN [ct |-> ct, warned |-> warned]
    ELSE LET r == CheckAndTrack(ct, Head(binaries), pkg) IN
         TrackBinaries(r.ct, Tail(binaries), pkg,
                       IF r.ret # ""
                       THEN Append(warned, [binary |-> Head(binaries),
                                            linkedBy |-> r.ret, skipping |-> pkg])
                       ELSE warned)

\* linkParallel lines 443-455: the dry run of every package of the queue
RECURSIVE DetectConflicts(_, _)
DetectConflicts(ct, queue) ==
    IF queue = <<>> THEN ct
    ELSE DetectConflicts(
            TrackBinaries(ct, LinkDryRun(prefix, Head(queue), StableVersion).Binaries,
                          Head(queue), <<>>).ct,
            Tail(queue))

\* linkParallel lines 512-518: the tracker of the sequential phase starts
\* with the binaries of the packages without conflicts
SequentialTracker(ct) ==
    [binaries |-> {e \in ct.binaries : e[2] \notin GetConflictingPackages(ct)},
     conflicts |-> <<>>]

(***************************************************************************)
(* installFormulae and linkParallel                                        *)
(***************************************************************************)
\* a plausible slip: a keg directory without a version does not count
isInstalled_hasVersion(name) == cellar[name] # <<>> /\ cellar[name][1] # {}

\* isInstalled, lines 578-584: the directory <Cellar>/<name> exists
isInstalled(name) == cellar[name] # <<>>

\* collectNeeded, lines 310-327
RECURSIVE collectNeeded(_, _), collectNeededAll(_, _)
collectNeeded(name, needed) ==
    IF name \in needed \/ isInstalled(name) THEN needed
    ELSE collectNeededAll(catalog[name], needed \cup {name})
collectNeededAll(names, needed) ==
    IF names = <<>> THEN needed
    ELSE collectNeededAll(Tail(names), collectNeeded(Head(names), needed))

\* a plausible slip: the package is queued before its dependencies
RECURSIVE buildQueue_preOrder(_, _, _), buildQueueAll_preOrder(_, _, _)
buildQueue_preOrder(name, st, details) ==
    IF name \in st.visited \/ isInstalled(name) THEN st
    ELSE IF name \notin details THEN [st EXCEPT !.visited = @ \cup {name}]
    ELSE buildQueueAll_preOrder(catalog[name],
                                [visited |-> st.visited \cup {name},
                                 queue |-> Append(st.queue, name)],
                                details)
buildQueueAll_preOrder(names, st, details) ==
    IF names = <<>> THEN st
    ELSE buildQueueAll_preOrder(Tail(names), buildQueue_preOrder(Head(names), st, details),
                                details)

\* a plausible slip: the visited set is not consulted
RECURSIVE buildQueue_noVisited(_, _, _), buildQueueAll_noVisited(_, _, _)
buildQueue_noVisited(name, st, details) ==
    IF isInstalled(name) THEN st
    ELSE IF name \notin details THEN [st EXCEPT !.visited = @ \cup {name}]
    ELSE LET st1 == buildQueueAll_noVisited(catalog[name],
                                            [st EXCEPT !.visited = @ \cup {name}], details)
         IN [st1 EXCEPT !.queue = Append(@, name)]
buildQueueAll_noVisited(names, st, details) ==
    IF names = <<>> THEN st
    ELSE buildQueueAll_noVisited(Tail(names), buildQueue_noVisited(Head(names), st, details),
                                 details)

\* buildQueue, lines 377-399: visited and installQueue after the call;
\* details is the set of names that have fetched formula details
RECURSIVE buildQueue(_, _, _), buildQueueAll(_, _, _)
buildQueue(name, st, details) ==
    IF name \in st.visited \/ isInstalled(name) THEN st
    ELSE IF name \notin details THEN [st EXCEPT !.visited = @ \cup {name}]
    ELSE LET st1 == buildQueueAll(catalog[name],
                                  [st EXCEPT !.visited = @ \cup {name}], details)
         IN [st1 EXCEPT !.queue = Append(@, name)]
buildQueueAll(names, st, details) ==
    IF names = <<>> THEN st
    ELSE buildQueueAll(Tail(names), buildQueue(Head(names), st, details), details)

\* the install queue of installFormulae(packages)
InstallQueue(packages) ==
    buildQueueAll(packages, [visited |-> {}, queue |-> <<>>],
                  collectNeededAll(packages, {})).queue

\* a plausible slip: one failed install is tolerated
InstallsFailed_moreThanOne(failed) == Cardinality(failed) > 1

\* line 425: len(errChan) > 0
InstallsFailed(failed) == Cardinality(failed) > 0

\* lines 297-401: the closure, the metadata fetch and the install queue of
\* one run of installFormulae
InstallRun(packages, fetchOk) ==
    LET needed == collectNeededAll(packages, {}) IN
    IF needed = {}
    THEN inst' = [IdleInst EXCEPT !.maxParallel = inst.maxParallel,
                       !.phase = "done", !.packages = packages, !.result = "ok"]
    ELSE IF ~fetchOk
    THEN inst' = [IdleInst EXCEPT !.maxParallel = inst.maxParallel,
                       !.phase = "done", !.packages = packages, !.result = "err"]
    ELSE LET queue == InstallQueue(packages) IN
         inst' = [IdleInst EXCEPT !.maxParallel = inst.maxParallel,
                       !.phase = "installing", !.packages = packages,
                                  !.queue = queue,
                                  !.pending = {queue[i] : i \in DOMAIN queue}]

\* the first install command
InstallStart(packages, fetchOk) ==
    /\ inst.phase = "idle"
    /\ InstallRun(packages, fetchOk)
    /\ UNCHANGED <<pinned, catalog, bottle, cellar, cache, prefix, warnings, op, smVars, dlVars, svcVars>>

\* a further install command, run after the previous one has returned
InstallAgain(packages, fetchOk) ==
    /\ inst.phase = "done"
    /\ InstallRun(packages, fetchOk)
    /\ warnings' = <<>>
    /\ UNCHANGED <<pinned, catalog, bottle, cellar, cache, prefix, op, smVars, dlVars, svcVars>>

\* the steps of one goroutine of the install phase through InstallBottle
InstallSteps ==
    {"downloaded", "download failed", "extracted", "extract failed",
     "renamed", "rename failed"}

\* lines 407-421 with InstallBottle (bottle.go 91-97): the goroutine of p
\* takes its next step. DownloadBottle (27-47) leaves the tarball in the
\* cache or fails; ExtractAndInstallBottle (51-88) extracts into its staging
\* directory or fails, makes <Cellar>/p and removes the version directory
\* there was (76-81), then renames the staged keg into place or fails (83).
\* inst.downloaded holds the packages between the download and the end of the
\* extraction, inst.staged those between lines 81 and 83; a failure or the
\* rename ends the goroutine.
InstallBottle(p, step) ==
    LET ends == step \in {"download failed", "extract failed", "renamed", "rename failed"} IN
    /\ inst.phase = "installing"
    /\ p \in inst.pending
    /\ step \in InstallSteps
    /\ CASE step \in {"downloaded", "download failed"} -> p \notin inst.downloaded \cup inst.staged
         [] step \in {"extracted", "extract failed"} -> p \in inst.downloaded
         [] OTHER -> p \in inst.staged
    /\ cache' = IF step = "downloaded" THEN cache \cup {p} ELSE cache
    /\ cellar' =
         CASE step = "extracted" ->
                [cellar EXCEPT ![p] = IF @ = <<>> THEN <<{}>>
                                      ELSE <<@[1] \ {StableVersion}>>]
           [] step = "renamed" ->
                [cellar EXCEPT ![p] = <<@[1] \cup {StableVersion}>>]
           [] OTHER -> cellar
    /\ inst' = [inst EXCEPT !.pending = IF ends THEN @ \ {p} ELSE @,
                            !.inflight = IF ends THEN @ \ {p} ELSE @,
                            !.downloaded = IF step = "downloaded" THEN @ \cup {p} ELSE @ \ {p},
                            !.staged = IF step = "extracted" THEN @ \cup {p} ELSE @ \ {p},
                            !.failed = IF ends /\ step # "renamed" THEN @ \cup {p} ELSE @]
    /\ UNCHANGED <<pinned, catalog, bottle, prefix, warnings, op, smVars, dlVars, svcVars>>

\* lines 422-432 and linkParallel lines 437-466: after wg.Wait either the
\* error return or the conflict detection and the split of the queue
InstallJoin ==
    /\ inst.phase = "installing"
    /\ inst.pending = {}
    /\ IF InstallsFailed(inst.failed)
       THEN inst' = [inst EXCEPT !.phase = "done", !.result = "err"]
       ELSE LET ct == DetectConflicts(NewConflictTracker, inst.queue)
                conflicting == GetConflictingPackages(ct)
            IN
            inst' = [inst EXCEPT
                       !.phase = "linking",
                       !.tracker = ct,
                       !.parallel = {inst.queue[i] : i \in DOMAIN inst.queue} \ conflicting,
                       !.sequential = SelectSeq(inst.queue, LAMBDA n : n \in conflicting),
                       !.seqTracker = SequentialTracker(ct)]
    /\ UNCHANGED <<pinned, catalog, bottle, cellar, cache, prefix, warnings, op, smVars, dlVars, svcVars>>

\* linkParallel lines 476-491: one worker of the parallel phase links its package
LinkParallelWorker(p) ==
    /\ inst.phase = "linking"
    /\ p \in inst.parallel
    /\ prefix' = Link(prefix, p, StableVersion).prefix
    /\ inst' = [inst EXCEPT !.parallel = @ \ {p}]
    /\ UNCHANGED <<pinned, catalog, bottle, cellar, cache, warnings, op, smVars, dlVars, svcVars>>

\* linkParallel lines 520-537: the next package of the sequential phase
LinkSequentialNext ==
    /\ inst.phase = "linking"
    /\ inst.parallel = {}
    /\ inst.sequential # <<>>
    /\ LET f == Head(inst.sequential)
           r == Link(prefix, f, StableVersion)
           t == TrackBinaries(inst.seqTracker, r.Binaries, f, <<>>)
       IN
       /\ prefix' = r.prefix
       /\ warnings' = warnings \o t.warned
       /\ inst' = [inst EXCEPT !.sequential = Tail(@), !.seqTracker = t.ct]
    /\ UNCHANGED <<pinned, catalog, bottle, cellar, cache, op, smVars, dlVars, svcVars>>

\* linkParallel lines 540-575: the conflict summary, and the return
LinkParallelReturn ==
    /\ inst.phase = "linking"
    /\ inst.parallel = {}
    /\ inst.sequential = <<>>
    /\ LET cs == inst.tracker.conflicts IN
       inst' = [inst EXCEPT
                  !.phase = "done", !.result = "ok",
                  !.summary =
                     {[binary |-> cs[i].BinaryName,
                       packages |-> {cs[j].FirstPkg : j \in {k \in DOMAIN cs :
                                        cs[k].BinaryName = cs[i].BinaryName}}
                                    \cup {cs[j].SecondPkg : j \in {k \in DOMAIN cs :
                                        cs[k].BinaryName = cs[i].BinaryName}}]
                      : i \in DOMAIN cs}]
    /\ UNCHANGED <<pinned, catalog, bottle, cellar, cache, prefix, warnings, op, smVars, dlVars, svcVars>>

\* the dependency lists of a formula: distinct names, a formula may name itself
DepLists(max) ==
    {d \in UNION {[1..n -> Names] : n \in 0..max} :
        \A i, j \in DOMAIN d : i # j => d[i] # d[j]}

\* the packages of one command line
Requests == DepLists(MaxRequested) \ {<<>>}

\* the file sets a bottle may hold
BottleMenu ==
    { {<<"bin", "foo">>},
      {<<"bin", "foo">>, <<"bin", "bar">>},
      {<<"sbin", "foo">>, <<"lib", "bar">>} }

\* the resolver alone, on every catalog and cellar
InitResolve ==
    /\ StateMachineIdle
    /\ DownloadIdle
    /\ ServicesIdle
    /\ pinned = {}
    /\ catalog \in [Names -> DepLists(MaxDeps)]
    /\ bottle = [n \in Names |-> {<<"bin", "foo">>}]
    /\ cellar \in [Names -> {<<>>, <<{StableVersion}>>}]
    /\ cache = {}
    /\ prefix = EmptyPrefix
    /\ inst = IdleInst
    /\ warnings = <<>>
    /\ op = NoOp

NextResolve == \E packages \in Requests, fetchOk \in BOOLEAN : InstallStart(packages, fetchOk)

SpecResolve == InitResolve /\ [][NextResolve]_vars

\* the install pipeline, on catalogs with at most one dependency per formula
InitInstall ==
    /\ StateMachineIdle
    /\ DownloadIdle
    /\ ServicesIdle
    /\ pinned = {}
    /\ catalog \in [Names -> DepLists(1)]
    /\ bottle \in [Names -> BottleMenu]
    /\ cellar \in {c \in [Names -> {<<>>, <<{StableVersion}>>}] :
                      Cardinality({n \in Names : c[n] # <<>>}) <= 1}
    /\ cache = {}
    /\ prefix = EmptyPrefix
    /\ inst = IdleInst
    /\ warnings = <<>>
    /\ op = NoOp

NextInstall ==
    \/ \E packages \in Requests, fetchOk \in BOOLEAN : InstallStart(packages, fetchOk)
    \/ \E p \in Names,
          step \in InstallSteps :
          InstallBottle(p, step)
    \/ InstallJoin
    \/ \E p \in Names : LinkParallelWorker(p)
    \/ LinkSequentialNext
    \/ LinkParallelReturn

SpecInstall == InitInstall /\ [][NextInstall]_vars

\* install commands run one after another on one catalog
ReinstallCatalogs ==
    { [n \in Names |-> <<>>],
      [a |-> <<"b">>, b |-> <<>>, c |-> <<>>],
      [a |-> <<"b">>, b |-> <<"c">>, c |-> <<>>] }

ReinstallBottles ==
    [a |-> {<<"bin", "foo">>},
     b |-> {<<"bin", "foo">>, <<"bin", "bar">>},
     c |-> {<<"sbin", "foo">>, <<"lib", "bar">>}]

InitReinstall ==
    /\ StateMachineIdle
    /\ DownloadIdle
    /\ ServicesIdle
    /\ pinned = {}
    /\ catalog \in ReinstallCatalogs
    /\ bottle = ReinstallBottles
    /\ cellar = [n \in Names |-> <<>>]
    /\ cache = {}
    /\ prefix = EmptyPrefix
    /\ inst = IdleInst
    /\ warnings = <<>>
    /\ op = NoOp

NextReinstall ==
    \/ \E packages \in Requests, fetchOk \in BOOLEAN : InstallStart(packages, fetchOk)
    \/ \E packages \in Requests, fetchOk \in BOOLEAN : InstallAgain(packages, fetchOk)
    \/ \E p \in Names,
          step \in InstallSteps :
          InstallBottle(p, step)
    \/ InstallJoin
    \/ \E p \in Names : LinkParallelWorker(p)
    \/ LinkSequentialNext
    \/ LinkParallelReturn

SpecReinstall == InitReinstall /\ [][NextReinstall]_vars

\* the parallel_downloads values of the configuration file
ParallelSettings == {0, 1, 2, 3, 20, 21}

\* Config.GetParallelDownloads
GetParallelDownloads(parallelDownloads) ==
    IF parallelDownloads <= 0 THEN 4
    ELSE IF parallelDownloads > 20 THEN 20
    ELSE parallelDownloads

\* part_013 line 404: sem := make(chan struct{}, 10)
InstallSemCap == 10

\* lines 409-412: a goroutine of the install phase gets a slot of sem and
\* starts InstallBottle; its download is in flight until InstallBottle returns
InstallAcquire(p) ==
    /\ inst.phase = "installing"
    /\ p \in inst.pending \ inst.inflight
    /\ Cardinality(inst.inflight) < InstallSemCap
    /\ inst' = [inst EXCEPT !.inflight = @ \cup {p}]
    /\ UNCHANGED <<pinned, catalog, bottle, cellar, cache, prefix, warnings, op, smVars, dlVars, svcVars>>

\* lines 412-419: a goroutine that holds a slot takes its next step through
\* InstallBottle; the deferred <-sem gives the slot back when it ends
InstallRelease(p, step) ==
    /\ p \in inst.inflight
    /\ InstallBottle(p, step)

\* cmd/install.go lines 28-30: client.MaxParallel = cfg.GetParallelDownloads()
InitParallel ==
    /\ StateMachineIdle
    /\ DownloadIdle
    /\ ServicesIdle
    /\ pinned = {}
    /\ catalog \in ReinstallCatalogs
    /\ bottle = ReinstallBottles
    /\ cellar = [n \in Names |-> <<>>]
    /\ cache = {}
    /\ prefix = EmptyPrefix
    /\ \E parallelDownloads \in ParallelSettings :
         inst = [IdleInst EXCEPT !.maxParallel = GetParallelDownloads(parallelDownloads)]
    /\ warnings = <<>>
    /\ op = NoOp

NextParallel ==
    \/ \E packages \in Requests, fetchOk \in BOOLEAN : InstallStart(packages, fetchOk)
    \/ \E p \in Names : InstallAcquire(p)
    \/ \E p \in Names,
          step \in InstallSteps :
          InstallRelease(p, step)
    \/ InstallJoin
    \/ \E p \in Names : LinkParallelWorker(p)
    \/ LinkSequentialNext
    \/ LinkParallelReturn

SpecParallel == InitParallel /\ [][NextParallel]_vars

\* part_013 line 351: ctx := context.Background(), the only context of
\* installFormulae; InstallNative, InstallBottle and DownloadWithProgress
\* take none. A Background context is never done, whatever the caller does.
PipelineCtxDone(callerCancelled) == FALSE

\* the caller of a running install asks for it to be cancelled
CallerCancel ==
    /\ inst.phase \in {"installing", "linking"}
    /\ ~inst.cancel
    /\ inst' = [inst EXCEPT !.cancel = TRUE,
                            !.phase = IF PipelineCtxDone(TRUE) THEN "done" ELSE @,
                            !.result = IF PipelineCtxDone(TRUE) THEN "cancelled" ELSE @]
    /\ UNCHANGED <<pinned, catalog, bottle, cellar, cache, prefix, warnings, op, smVars, dlVars, svcVars>>

NextCancel ==
    \/ \E packages \in Requests, fetchOk \in BOOLEAN : InstallStart(packages, fetchOk)
    \/ \E p \in Names : InstallAcquire(p)
    \/ \E p \in Names,
          step \in InstallSteps :
          InstallRelease(p, step)
    \/ InstallJoin
    \/ \E p \in Names : LinkParallelWorker(p)
    \/ LinkSequentialNext
    \/ LinkParallelReturn
    \/ CallerCancel

SpecCancel == InitParallel /\ [][NextCancel]_vars

(***************************************************************************)
(* linkParallel on kegs with subdirectories. A destination is the tuple of  *)
(* its components below the prefix, <<dir, c1, ..., cn>>; the link          *)
(* directory itself always exists once a package has files in it.           *)
(***************************************************************************)

\* the destinations a keg may have files at
TreeFiles == { <<"lib", "baz">>, <<"lib", "foo">>, <<"lib", "foo", "bar">> }

\* filepath.Walk visits the entries of a directory in lexical order
TreeWalkOrder == << <<"lib", "baz">>, <<"lib", "foo">>, <<"lib", "foo", "bar">> >>

TreePaths == TreeFiles \cup OptPaths

Directory == [kind |-> "dir", target |-> <<>>]

EmptyTree == [p \in TreePaths |-> Absent]

\* q lies below p
IsBelow(q, p) == Len(q) > Len(p) /\ SubSeq(q, 1, Len(p)) = p

\* the file sets of a keg: a path is a file or a directory, not both
TreeKegs == {k \in SUBSET TreeFiles : k # {} /\ \A p, q \in k : ~IsBelow(q, p)}

\* the directories of a keg below its link directories
KegDirs(keg) == {p \in TreeFiles : \E q \in keg : IsBelow(q, p)}

\* filepath.Rel(srcDir, path): the components after the link directory
Rel(p) == SubSeq(p, 2, Len(p))

\* the file below <Cellar>/<name>/<version> that the link at p points to
KegTarget(name, version, p) == <<"Cellar", name, version>> \o p

\* os.MkdirAll(dst): every missing directory on the way is made; nothing
\* changes if a component is there and is not a directory
RECURSIVE MkdirAll(_, _)
MkdirAll(pf, dst) ==
    IF Len(dst) <= 1 THEN [pf |-> pf, ok |-> TRUE]
    ELSE LET up == MkdirAll(pf, SubSeq(dst, 1, Len(dst) - 1)) IN
         IF ~up.ok THEN up
         ELSE IF up.pf[dst].kind = "absent"
              THEN [pf |-> [up.pf EXCEPT ![dst] = Directory], ok |-> TRUE]
              ELSE [pf |-> up.pf, ok |-> up.pf[dst].kind = "dir"]

\* os.Remove(dst): a directory goes only if it is empty
Remove(pf, dst) ==
    IF pf[dst].kind = "dir" /\ \E q \in TreeFiles : IsBelow(q, dst) /\ pf[q].kind # "absent"
    THEN pf
    ELSE [pf EXCEPT ![dst] = Absent]

\* os.Symlink(path, dst) fails if dst exists (EEXIST) or if the directory
\* it is to be made in does not (ENOENT, ENOTDIR)
CanSymlink(pf, dst) ==
    /\ pf[dst].kind = "absent"
    /\ Len(dst) > 2 => pf[SubSeq(dst, 1, Len(dst) - 1)].kind = "dir"

MakeSymlink(pf, dst, target) ==
    IF CanSymlink(pf, dst) THEN [pf EXCEPT ![dst] = Symlink(target)] ELSE pf

\* part_013 line 438: const numWorkers = 5
numWorkers == 5

\* the entries filepath.Walk hands to the walk function of linkDir for a
\* keg: its directories and files in lexical order
TreeWalk(keg) == SelectSeq(TreeWalkOrder, LAMBDA p : p \in keg \cup KegDirs(keg))

\* a Link that has made its opt link goes on with the walk, or returns
AfterEntry(w, walk) ==
    [w EXCEPT !.walk = walk, !.pc = IF walk = <<>> THEN "done" ELSE "mkdir"]

\* the next system call of linkInternal(name, version, false), lines 33-117,
\* in the goroutine whose position is w: the tree and the position after it.
\* Each of os.Lstat, os.Remove, os.Symlink and os.MkdirAll is one step.
LinkStep(pf, w, name, version) ==
    LET keg == KegPaths(name, version)
        optLink == <<"opt", name>>
        p == Head(w.walk)
    IN
    CASE w.pc = "optLstat" ->
           \* line 45-46
           [pf |-> pf,
            w |-> [w EXCEPT !.seen = pf[optLink].kind = "symlink",
                            !.pc = IF pf[optLink].kind = "symlink" THEN "optRemove"
                                   ELSE "optSymlink"]]
      [] w.pc = "optRemove" ->
           \* line 47
           [pf |-> Remove(pf, optLink), w |-> [w EXCEPT !.pc = "optSymlink"]]
      [] w.pc = "optSymlink" ->
           \* lines 50-53
           [pf |-> IF pf[optLink].kind = "absent"
                   THEN [pf EXCEPT ![optLink] = Symlink(CellarPath(name, version))]
                   ELSE pf,
            w |-> LET w1 == IF pf[optLink].kind = "absent" THEN w
                            ELSE [w EXCEPT !.Success = FALSE,
                                           !.Errors = Append(@, <<"opt link">>)]
                  IN AfterEntry(w1, TreeWalk(keg))]
      [] w.pc = "mkdir" /\ p \in KegDirs(keg) ->
           \* lines 88-92
           [pf |-> MkdirAll(pf, p).pf, w |-> AfterEntry(w, Tail(w.walk))]
      [] w.pc = "mkdir" /\ p \notin KegDirs(keg) ->
           \* lines 95-104
           LET made == MkdirAll(pf, SubSeq(p, 1, Len(p) - 1)) IN
           [pf |-> made.pf,
            w |-> IF made.ok THEN [w EXCEPT !.pc = "lstat"]
                  ELSE AfterEntry([w EXCEPT !.Errors = Append(@, <<"dir">> \o Rel(p))],
                                  Tail(w.walk))]
      [] w.pc = "lstat" ->
           \* line 106: Lstat of a path whose directory is gone fails too
           LET found == pf[p].kind # "absent" IN
           [pf |-> pf,
            w |-> [w EXCEPT !.seen = found, !.pc = IF found THEN "remove" ELSE "symlink"]]
      [] w.pc = "remove" ->
           \* line 107
           [pf |-> Remove(pf, p), w |-> [w EXCEPT !.pc = "symlink"]]
      [] w.pc = "symlink" ->
           \* lines 110-115
           [pf |-> MakeSymlink(pf, p, KegTarget(name, version, p)),
            w |-> LET w1 == IF CanSymlink(pf, p) THEN w
                            ELSE [w EXCEPT !.Success = FALSE,
                                           !.Errors = Append(@, <<"link">> \o Rel(p))]
                  IN AfterEntry(w1, Tail(w.walk))]
      [] OTHER -> [pf |-> pf, w |-> w]

\* a Link run on its own from position w to its return
RECURSIVE RunLink(_, _, _, _)
RunLink(pf, w, name, version) ==
    IF w.pc = "done" THEN [pf |-> pf, w |-> w]
    ELSE LET r == LinkStep(pf, w, name, version) IN RunLink(r.pf, r.w, name, version)

\* linkInternal on a keg with subdirectories: the tree after a Link that no
\* other Link runs beside, and the Binaries of the LinkResult
LinkTree(pf, name, version, dryRun) ==
    LET keg == KegPaths(name, version)
        walk == SelectSeq(TreeWalkOrder, LAMBDA p : p \in keg)
    IN  [prefix |-> IF dryRun THEN pf
                    ELSE RunLink(pf, [NoWorker EXCEPT !.pc = "optLstat"], name, version).pf,
         Binaries |-> [i \in DOMAIN walk |-> Rel(walk[i])]]

\* linkParallel lines 443-455 on such kegs
RECURSIVE DetectTreeConflicts(_, _)
DetectTreeConflicts(ct, queue) ==
    IF queue = <<>> THEN ct
    ELSE DetectTreeConflicts(
            TrackBinaries(ct, LinkTree(prefix, Head(queue), StableVersion, TRUE).Binaries,
                          Head(queue), <<>>).ct,
            Tail(queue))

\* linkParallel(installQueue) lines 437-466: the dry runs and the split
LinkTreeStart(queue) ==
    /\ inst.phase = "idle"
    /\ LET ct == DetectTreeConflicts(NewConflictTracker, queue)
           conflicting == GetConflictingPackages(ct)
       IN
       inst' = [inst EXCEPT
                  !.phase = "linking",
                  !.queue = queue,
                  !.tracker = ct,
                  !.parallel = {queue[i] : i \in DOMAIN queue} \ conflicting,
                  !.sequential = SelectSeq(queue, LAMBDA n : n \in conflicting),
                  !.seqTracker = SequentialTracker(ct)]
    /\ UNCHANGED <<pinned, catalog, bottle, cellar, cache, prefix, warnings, op, smVars, dlVars, svcVars>>

\* lines 476-481: a goroutine of the parallel phase takes a slot of sem and
\* enters c.Link
LinkTreeAcquire(p) ==
    /\ inst.phase = "linking"
    /\ p \in inst.parallel
    /\ inst.workers[p].pc = "none"
    /\ Cardinality({n \in Names : inst.workers[n].pc \notin {"none", "done"}}) < numWorkers
    /\ inst' = [inst EXCEPT !.workers[p].pc = "optLstat"]
    /\ UNCHANGED <<pinned, catalog, bottle, cellar, cache, prefix, warnings, op, smVars, dlVars, svcVars>>

\* lines 482-489: the goroutine of p makes the next system call of its
\* c.Link; no lock is held, so the calls of the workers interleave. After
\* the last one Link returns, the result goes to resultChan and the
\* goroutine ends.
LinkTreeWorker(p) ==
    /\ inst.phase = "linking"
    /\ p \in inst.parallel
    /\ inst.workers[p].pc \notin {"none", "done"}
    /\ LET r == LinkStep(prefix, inst.workers[p], p, StableVersion) IN
       /\ prefix' = r.pf
       /\ inst' = [inst EXCEPT !.workers[p] = r.w,
                               !.parallel = IF r.w.pc = "done" THEN @ \ {p} ELSE @]
    /\ UNCHANGED <<pinned, catalog, bottle, cellar, cache, warnings, op, smVars, dlVars, svcVars>>

\* lines 520-537: the next package of the sequential phase
LinkTreeSequentialNext ==
    /\ inst.phase = "linking"
    /\ inst.parallel = {}
    /\ inst.sequential # <<>>
    /\ LET f == Head(inst.sequential)
           r == LinkTree(prefix, f, StableVersion, FALSE)
           t == TrackBinaries(inst.seqTracker, r.Binaries, f, <<>>)
       IN
       /\ prefix' = r.prefix
       /\ warnings' = warnings \o t.warned
       /\ inst' = [inst EXCEPT !.sequential = Tail(@), !.seqTracker = t.ct]
    /\ UNCHANGED <<pinned, catalog, bottle, cellar, cache, op, smVars, dlVars, svcVars>>

\* every package extracted, nothing linked yet
InitLinkTree ==
    /\ StateMachineIdle
    /\ DownloadIdle
    /\ ServicesIdle
    /\ pinned = {}
    /\ catalog = [n \in Names |-> <<>>]
    /\ bottle \in [Names -> TreeKegs]
    /\ cellar = [n \in Names |-> <<{StableVersion}>>]
    /\ cache = {}
    /\ prefix = EmptyTree
    /\ inst = IdleInst
    /\ warnings = <<>>
    /\ op = NoOp

NextLinkTree ==
    \/ \E queue \in Requests : LinkTreeStart(queue)
    \/ \E p \in Names : LinkTreeAcquire(p)
    \/ \E p \in Names : LinkTreeWorker(p)
    \/ LinkTreeSequentialNext
    \/ LinkParallelReturn

SpecLinkTree == InitLinkTree /\ [][NextLinkTree]_vars

(***************************************************************************)
(* ExtractAndInstallBottle step by step, internal/brew/bottle.go 51-88:    *)
(* the staging directory, the extraction into it and the move into place.  *)
(* Calls for different packages run side by side in the install phase.     *)
(***************************************************************************)

\* the entries of the tarball of a package, in the order of the archive
TarEntries(name) == WalkOf(bottle[name])

\* a plausible slip: the archive is unpacked at its final place
ExtractInto_final(e, f) ==
    [e EXCEPT !.tree = <<(IF @ = <<>> THEN {} ELSE @[1]) \cup {f}>>]

\* ExtractBottle(tarPath, tmpDir, ...), line 60: an entry of the archive is
\* written below the staging directory
ExtractInto(e, f) == [e EXCEPT !.staged = @ \cup {f}]

\* lines 54-58: the staging directory <Cellar>/.fastbrew-tmp-<name>-<n>
ExtractBegin(p, made) ==
    /\ ext[p].pc \in {"idle", "returned"}
    /\ ext' = [ext EXCEPT ![p] = IF made
                                 THEN [@ EXCEPT !.pc = "extracting", !.read = 0,
                                                !.staged = {}, !.err = "nil"]
                                 ELSE [@ EXCEPT !.pc = "returned", !.read = 0, !.staged = {},
                                                !.err = "failed to create temp dir"]]
    /\ UNCHANGED <<smVars, dlVars, pkgVars, retry, progress, sec, search, maint, client>>

\* ExtractBottle lines 381-445: the next entry of the archive is written
ExtractEntry(p) ==
    /\ ext[p].pc = "extracting"
    /\ ext[p].read < Len(TarEntries(p))
    /\ ext' = [ext EXCEPT ![p] = [ExtractInto(@, TarEntries(p)[ext[p].read + 1])
                                    EXCEPT !.read = @ + 1]]
    /\ UNCHANGED <<smVars, dlVars, pkgVars, retry, progress, sec, search, maint, client>>

\* ExtractBottle returns an error (lines 350-445) and ExtractAndInstallBottle
\* returns it at line 61; the deferred os.RemoveAll(tmpDir) of line 58 runs
ExtractFails(p) ==
    /\ ext[p].pc = "extracting"
    /\ ext' = [ext EXCEPT ![p] = [@ EXCEPT !.pc = "returned", !.staged = {},
                                           !.err = "extraction failed"]]
    /\ UNCHANGED <<smVars, dlVars, pkgVars, retry, progress, sec, search, maint, client>>

\* lines 75-87: os.MkdirAll(finalPkgDir), os.RemoveAll(finalVersionDir) and
\* os.Rename(extractedPkgDir, finalVersionDir), which fails when the archive
\* did not hold <name>/<version>; then the deferred removal of the staging
\* directory
MoveIntoPlace(p, renamed) ==
    /\ ext[p].pc = "extracting"
    /\ ext[p].read = Len(TarEntries(p))
    /\ ext' = [ext EXCEPT ![p] =
                 [pc |-> "returned", read |-> ext[p].read, staged |-> {},
                  err |-> IF renamed THEN "nil"
                          ELSE "failed to move extracted package into place",
                  tree |-> IF renamed THEN <<ext[p].staged>> ELSE <<>>]]
    /\ cellar' = [cellar EXCEPT ![p] =
                    LET versions == IF @ = <<>> THEN {} ELSE @[1] IN
                    IF renamed THEN <<versions \cup {StableVersion}>>
                    ELSE <<versions \ {StableVersion}>>]
    /\ UNCHANGED <<pinned, catalog, bottle, cache, prefix, inst, warnings, op,
                   smVars, dlVars, retry, progress, sec, search, maint, client>>

\* the Cellar before the calls: of each package the keg is there in full or not
InitExtract ==
    /\ StateMachineIdle
    /\ DownloadIdle
    /\ retry = IdleRetry
    /\ maint = IdleMaint
    /\ client = IdleClient
    /\ progress = IdleProgress
    /\ sec = IdleSec
    /\ search = IdleSearch
    /\ pinned = {}
    /\ catalog = [n \in Names |-> <<>>]
    /\ bottle = ReinstallBottles
    /\ \E there \in SUBSET Names :
          /\ cellar = [n \in Names |-> IF n \in there THEN <<{StableVersion}>> ELSE <<>>]
          /\ ext = [n \in Names |-> [IdleExtract EXCEPT
                                       !.tree = IF n \in there THEN <<bottle[n]>> ELSE <<>>]]
    /\ cache = Names
    /\ prefix = EmptyPrefix
    /\ inst = IdleInst
    /\ warnings = <<>>
    /\ op = NoOp

NextExtract ==
    \/ \E p \in Names, made \in BOOLEAN : ExtractBegin(p, made)
    \/ \E p \in Names : ExtractEntry(p)
    \/ \E p \in Names : ExtractFails(p)
    \/ \E p \in Names, renamed \in BOOLEAN : MoveIntoPlace(p, renamed)

SpecExtract == InitExtract /\ [][NextExtract]_vars

(***************************************************************************)
(* ExtractBottle header by header, internal/brew/bottle.go 349-459, on a    *)
(* file system with symbolic links. A path is the tuple of its components  *)
(* from the root directory.                                                *)
(***************************************************************************)

\* most headers in an archive
MaxEntries == 2

\* c.Prefix, the staging directory below it that ExtractAndInstallBottle
\* hands to ExtractBottle as cellarDir, and a directory outside the prefix
PrefixDir == <<"p">>
ExtractRoot == <<"p", "t">>
OutsideDir == <<"o">>

\* the directories that exist before the extraction
ExistingDirs == {PrefixDir, ExtractRoot, <<"p", "x">>, OutsideDir}

\* header.Name: relative paths, one of them leaving the root by ".."
EntryNames == { <<"a">>, <<"c">>, <<"a", "b">>, <<"..", "x", "b">> }

\* header.Linkname of a symlink: absolute or relative to the link
LinkNames ==
    { [abs |-> TRUE, path |-> <<"o">>],
      [abs |-> TRUE, path |-> <<"p", "x">>],
      [abs |-> TRUE, path |-> <<"p", "x", "f">>],
      [abs |-> FALSE, path |-> <<"c">>],
      [abs |-> FALSE, path |-> <<"..", "..", "o">>] }

NoLink == [abs |-> FALSE, path |-> <<>>]

\* header.Linkname of a hard link: a path relative to the root
HardLinkNames ==
    { [abs |-> FALSE, path |-> <<"a">>],
      [abs |-> FALSE, path |-> <<"..", "x">>] }

\* the headers an archive may hold: directories, regular files, symbolic
\* links, hard links and device files
Headers ==
    {[Typeflag |-> t, Name |-> n, Linkname |-> NoLink] :
        t \in {"dir", "reg", "char"}, n \in EntryNames}
    \cup {[Typeflag |-> "symlink", Name |-> n, Linkname |-> l] : n \in EntryNames, l \in LinkNames}
    \cup {[Typeflag |-> "link", Name |-> n, Linkname |-> l] : n \in EntryNames, l \in HardLinkNames}

Archives == UNION {[1..n -> Headers] : n \in 1..MaxEntries}

\* filepath.Clean on a rooted path: ".." drops the component before it
RECURSIVE CleanOnto(_, _)
CleanOnto(done, rest) ==
    IF rest = <<>> THEN done
    ELSE IF Head(rest) = ".."
         THEN CleanOnto(IF done = <<>> THEN done ELSE SubSeq(done, 1, Len(done) - 1), Tail(rest))
    ELSE CleanOnto(Append(done, Head(rest)), Tail(rest))

Clean(path) == CleanOnto(<<>>, path)

\* filepath.Join(dir, name)
Join(dir, name) == Clean(dir \o name)

\* filepath.Dir
Dir(path) == SubSeq(path, 1, Len(path) - 1)

\* the file system: the directories, the regular files, the symbolic links
\* (each with the place it resolves to and the link name it holds) and every
\* place the extraction created or wrote
NewDisk == [dirs |-> ExistingDirs, files |-> {}, links |-> {}, written |-> {}]

IsLink(fs, p) == \E l \in fs.links : l[1] = p
LinkTarget(fs, p) == (CHOOSE l \in fs.links : l[1] = p)[2]

\* how often the kernel follows links in one path walk of the model
MaxFollow == 3

\* the place a path names when every symbolic link on it, the last component
\* included, is followed
RECURSIVE Follow(_, _, _)
Follow(fs, path, fuel) ==
    IF path = <<>> THEN <<>>
    ELSE LET here == Append(Follow(fs, Dir(path), fuel), path[Len(path)]) IN
         IF IsLink(fs, here) /\ fuel > 0 THEN Follow(fs, LinkTarget(fs, here), fuel - 1)
         ELSE here

\* the place a path names when the last component is not followed (lstat)
NoFollow(fs, path) ==
    IF path = <<>> THEN <<>> ELSE Append(Follow(fs, Dir(path), MaxFollow), path[Len(path)])

\* os.MkdirAll(path, 0755)
RECURSIVE MkdirAllAt(_, _)
MkdirAllAt(fs, path) ==
    IF path = <<>> THEN [fs |-> fs, ok |-> TRUE]
    ELSE LET up == MkdirAllAt(fs, Dir(path)) IN
         IF ~up.ok THEN up
         ELSE LET at == Follow(up.fs, path, MaxFollow) IN
              IF at \in up.fs.dirs THEN up
              ELSE IF at \in up.fs.files \/ IsLink(up.fs, at) \/ IsLink(up.fs, NoFollow(up.fs, path))
                   THEN [fs |-> up.fs, ok |-> FALSE]
              ELSE [fs |-> [up.fs EXCEPT !.dirs = @ \cup {at}, !.written = @ \cup {at}],
                    ok |-> TRUE]

\* os.OpenFile(target, O_CREATE|O_RDWR|O_TRUNC, mode) and the copy into it
OpenFileAt(fs, target) ==
    LET at == Follow(fs, target, MaxFollow) IN
    IF at \in fs.dirs \/ IsLink(fs, at) \/ Dir(at) \notin fs.dirs
    THEN [fs |-> fs, ok |-> FALSE]
    ELSE [fs |-> [fs EXCEPT !.files = @ \cup {at}, !.written = @ \cup {at}], ok |-> TRUE]

\* os.Remove(target), a missing target being no error
RemoveAt(fs, target) ==
    LET at == NoFollow(fs, target) IN
    IF IsLink(fs, at)
    THEN [fs |-> [fs EXCEPT !.links = {l \in @ : l[1] # at}], ok |-> TRUE]
    ELSE IF at \in fs.files THEN [fs |-> [fs EXCEPT !.files = @ \ {at}], ok |-> TRUE]
    ELSE IF at \in fs.dirs
    THEN IF \E q \in fs.dirs \cup fs.files \cup {l[1] : l \in fs.links} : IsBelow(q, at)
         THEN [fs |-> fs, ok |-> FALSE]
         ELSE [fs |-> [fs EXCEPT !.dirs = @ \ {at}], ok |-> TRUE]
    ELSE [fs |-> fs, ok |-> TRUE]

\* os.Symlink(linkTarget, target)
SymlinkAt(fs, target, linkname) ==
    LET at == NoFollow(fs, target)
        to == IF linkname.abs THEN Clean(linkname.path) ELSE Clean(Dir(at) \o linkname.path)
    IN IF at \in fs.dirs \cup fs.files \/ IsLink(fs, at) \/ Dir(at) \notin fs.dirs
       THEN [fs |-> fs, ok |-> FALSE]
       ELSE [fs |-> [fs EXCEPT !.links = @ \cup {<<at, to, linkname>>},
                               !.written = @ \cup {at}],
             ok |-> TRUE]

\* os.Link(linkTarget, target): a second name for a regular file, or for a
\* symbolic link (linkat does not follow the last component of the old name)
LinkAt(fs, linkTarget, target) ==
    LET old == NoFollow(fs, linkTarget)
        at == NoFollow(fs, target)
    IN IF \/ at \in fs.dirs \cup fs.files \/ IsLink(fs, at) \/ Dir(at) \notin fs.dirs
          \/ old \in fs.dirs
          \/ (old \notin fs.files /\ ~IsLink(fs, old))
       THEN [fs |-> fs, ok |-> FALSE]
       ELSE IF old \in fs.files
       THEN [fs |-> [fs EXCEPT !.files = @ \cup {at}, !.written = @ \cup {at}], ok |-> TRUE]
       ELSE LET linkname == (CHOOSE l \in fs.links : l[1] = old)[3]
                to == IF linkname.abs THEN Clean(linkname.path)
                      ELSE Clean(Dir(at) \o linkname.path)
            IN [fs |-> [fs EXCEPT !.links = @ \cup {<<at, to, linkname>>},
                                  !.written = @ \cup {at}],
                ok |-> TRUE]

\* isSafeSymlink, lines 462-472
isSafeSymlink(cellarDir, prefixDir, target, linkname) ==
    LET resolved == IF linkname.abs THEN Clean(linkname.path)
                    ELSE Clean(Dir(target) \o linkname.path)
    IN IsBelow(resolved, cellarDir) \/ IsBelow(resolved, prefixDir)

\* the body of the loop of ExtractBottle for one header, lines 389-457: the
\* file system after it and whether ExtractBottle goes on; a device file or
\* another type is skipped with a warning
ExtractHeader(fs, cellarDir, prefixDir, header) ==
    LET target == Join(cellarDir, header.Name) IN
    IF ~IsBelow(target, cellarDir) THEN [fs |-> fs, ok |-> FALSE]
    ELSE CASE header.Typeflag = "dir" -> MkdirAllAt(fs, target)
           [] header.Typeflag = "reg" ->
                LET made == MkdirAllAt(fs, Dir(target)) IN
                IF ~made.ok THEN made ELSE OpenFileAt(made.fs, target)
           [] header.Typeflag = "symlink" ->
                LET made == MkdirAllAt(fs, Dir(target)) IN
                IF ~made.ok THEN made
                ELSE LET removed == RemoveAt(made.fs, target) IN
                     IF ~removed.ok THEN removed
                     ELSE IF ~isSafeSymlink(cellarDir, prefixDir, target, header.Linkname)
                          THEN [fs |-> removed.fs, ok |-> FALSE]
                     ELSE SymlinkAt(removed.fs, target, header.Linkname)
           [] header.Typeflag = "link" ->
                LET made == MkdirAllAt(fs, Dir(target)) IN
                IF ~made.ok THEN made
                ELSE LET removed == RemoveAt(made.fs, target)
                         linkTarget == Join(cellarDir, header.Linkname.path)
                     IN
                     IF ~removed.ok THEN removed
                     ELSE IF ~IsBelow(linkTarget, cellarDir)
                          THEN [fs |-> removed.fs, ok |-> FALSE]
                     ELSE LinkAt(removed.fs, linkTarget, target)
           [] OTHER -> [fs |-> fs, ok |-> TRUE]

\* ExtractBottle(tarPath, tmpDir, c.Prefix) is called on an archive
TarOpen(archive) ==
    /\ op = NoOp
    /\ op' = [kind |-> "tar", name |-> "", err |-> Nil, rest |-> archive, fs |-> NewDisk]
    /\ UNCHANGED <<pinned, catalog, bottle, cellar, cache, prefix, inst, warnings,
                   smVars, dlVars, svcVars>>

\* tr.Next() and the switch on the type of the header
TarNext ==
    /\ op.kind = "tar"
    /\ op.err = Nil
    /\ op.rest # <<>>
    /\ LET r == ExtractHeader(op.fs, ExtractRoot, PrefixDir, Head(op.rest)) IN
       op' = [op EXCEPT !.rest = Tail(@), !.fs = r.fs,
                        !.err = IF r.ok THEN Nil ELSE "extraction failed"]
    /\ UNCHANGED <<pinned, catalog, bottle, cellar, cache, prefix, inst, warnings,
                   smVars, dlVars, svcVars>>

NextTar ==
    \/ \E archive \in Archives : TarOpen(archive)
    \/ TarNext

SpecTar == InitDownload /\ [][NextTar]_vars

(***************************************************************************)
(* cmd/link.go: the link and unlink commands on a prefix tree that also    *)
(* holds entries fastbrew did not create                                   *)
(***************************************************************************)
\* version directory names in the order os.ReadDir lists them: v0 and v9 are
\* older than the stable v1, and the name of v9 sorts after it (as 1.9 sorts
\* after 1.10)
VersionOrder == <<"v0", "v1", "v9">>

\* findInstalledVersion: the last version directory of <Cellar>/<pkg>, <<>> on error
findInstalledVersion(pkg) ==
    IF cellar[pkg] = <<>> \/ cellar[pkg][1] = {} THEN <<>>
    ELSE LET last == CHOOSE i \in DOMAIN VersionOrder :
                        /\ VersionOrder[i] \in cellar[pkg][1]
                        /\ \A j \in DOMAIN VersionOrder :
                              VersionOrder[j] \in cellar[pkg][1] => j <= i
         IN <<VersionOrder[last]>>

\* linkCmd for one package, lines 50-71
LinkCmd(pkg) ==
    /\ LET version == findInstalledVersion(pkg) IN
       IF version = <<>>
       THEN /\ op' = [kind |-> "link", name |-> pkg, err |-> "not installed"]
            /\ UNCHANGED prefix
       ELSE /\ prefix' = Link(prefix, pkg, version[1]).prefix
            /\ op' = [kind |-> "link", name |-> pkg, err |-> Nil]
    /\ UNCHANGED <<pinned, catalog, bottle, cellar, cache, inst, warnings, smVars, dlVars, svcVars>>

\* unlinkCmd for one package, lines 89-94
UnlinkCmd(pkg) ==
    /\ LET r == Unlink(prefix, pkg) IN
       /\ prefix' = r.prefix
       /\ op' = [kind |-> "unlink", name |-> pkg, err |-> r.err]
    /\ UNCHANGED <<pinned, catalog, bottle, cellar, cache, inst, warnings, smVars, dlVars, svcVars>>

\* uninstallCmd for one package, cmd/uninstall.go lines 23-42: the keg
\* directory is removed, then Unlink runs on the cellar without it and its
\* error is ignored
UninstallCmd(pkg) ==
    /\ IF cellar[pkg] = <<>>
       THEN /\ op' = [kind |-> "uninstall", name |-> pkg, err |-> "not installed"]
            /\ UNCHANGED <<cellar, prefix>>
       ELSE LET removed == [cellar EXCEPT ![pkg] = <<>>] IN
            /\ cellar' = removed
            /\ prefix' = UnlinkAt(removed, prefix, pkg).prefix
            /\ op' = [kind |-> "uninstall", name |-> pkg, err |-> Nil]
    /\ UNCHANGED <<pinned, catalog, bottle, cache, inst, warnings, smVars, dlVars, svcVars>>

\* what happens to one package of a reinstall: whether os.RemoveAll removes
\* the keg directory (its error is only printed), and the call at which the
\* pass of the package ends: FetchFormula, DownloadBottle, ExtractBottle or
\* os.Rename failing, or the rename succeeding
ReinstallOutcomes ==
    [removed : BOOLEAN,
     step : {"fetch failed", "download failed", "extract failed", "rename failed", "renamed"}]

\* reinstallCmd lines 31-83, the loop over args, with InstallBottle (bottle.go
\* 91-97); every package of the model is a formula, so IsCask is false.
\* Unlink runs on the keg that is still there (49), the keg directory is
\* removed (55), FetchFormula fails or not (59-63), DownloadBottle leaves the
\* tarball in the cache, ExtractAndInstallBottle makes <Cellar>/pkg, removes
\* the version directory and renames the staged keg into place (66-69), then
\* Link runs (72); a failure prints a line and goes on to the next package.
\* st holds the cellar, the cache and the prefix tree so far and the line
\* that ended the pass of each package.
RECURSIVE reinstallEach(_, _, _)
reinstallEach(args, outs, st) ==
    IF args = <<>> THEN st
    ELSE LET pkg == Head(args)
             out == Head(outs)
             unlinked == UnlinkAt(st.cellar, st.prefix, pkg).prefix
             removed == IF out.removed THEN [st.cellar EXCEPT ![pkg] = <<>>] ELSE st.cellar
             downloaded == out.step \notin {"fetch failed", "download failed"}
             extracted == downloaded /\ out.step # "extract failed"
             staged == IF extracted
                       THEN [removed EXCEPT ![pkg] = IF @ = <<>> THEN <<{}>>
                                                     ELSE <<@[1] \ {StableVersion}>>]
                       ELSE removed
             installed == IF out.step = "renamed"
                          THEN [staged EXCEPT ![pkg] = <<@[1] \cup {StableVersion}>>]
                          ELSE staged
             result == linkInternalAt(installed, unlinked, pkg, StableVersion, FALSE)
         IN
         reinstallEach(Tail(args), Tail(outs),
            [cellar |-> installed,
             cache |-> IF downloaded THEN st.cache \cup {pkg} ELSE st.cache,
             prefix |-> IF out.step = "renamed" THEN result.prefix ELSE unlinked,
             lines |-> Append(st.lines,
                         CASE out.step = "fetch failed" -> "error fetching formula"
                           [] out.step # "renamed" -> "error installing"
                           [] result.Success -> "reinstalled successfully"
                           [] OTHER -> "reinstalled with errors")])

\* reinstallCmd, cmd/reinstall.go lines 24-83: a failure of NewClient ends the
\* command with 1 before anything is touched; otherwise every package named
\* is unlinked, removed, installed again and linked, and the command ends
\* with 0 whatever failed on the way
ReinstallCmd(args, outs, clientOk) ==
    /\ Len(args) >= 1
    /\ DOMAIN outs = DOMAIN args
    /\ LET st == IF clientOk
                 THEN reinstallEach(args, outs, [cellar |-> cellar, cache |-> cache,
                                                 prefix |-> prefix, lines |-> <<>>])
                 ELSE [cellar |-> cellar, cache |-> cache, prefix |-> prefix, lines |-> <<>>]
       IN
       /\ cellar' = st.cellar
       /\ cache' = st.cache
       /\ prefix' = st.prefix
       /\ op' = [kind |-> "reinstall", name |-> "",
                 err |-> IF clientOk THEN Nil ELSE "could not find brew prefix",
                 packages |-> args, lines |-> st.lines]
    /\ UNCHANGED <<pinned, catalog, bottle, inst, warnings, smVars, dlVars, svcVars>>

\* entries of the prefix tree that fastbrew did not create
ForeignEntries == {RegularFile, Symlink(<<"elsewhere">>)}

\* the paths such entries are put at: the paths some bottle links, the opt
\* links and one path no bottle links
ForeignPaths == UNION BottleMenu \cup OptPaths \cup {<<"etc", "foo">>}

\* the user or another tool puts a file or a symlink into the prefix tree
ForeignWrite(path, entry) ==
    /\ Cardinality({p \in PrefixPaths : prefix[p] \in ForeignEntries}) < MaxForeign
    /\ prefix[path] \notin ForeignEntries
    /\ prefix' = [prefix EXCEPT ![path] = entry]
    /\ op' = [kind |-> "foreign", name |-> "", err |-> Nil]
    /\ UNCHANGED <<pinned, catalog, bottle, cellar, cache, inst, warnings, smVars, dlVars, svcVars>>

InitLink ==
    /\ StateMachineIdle
    /\ DownloadIdle
    /\ ServicesIdle
    /\ pinned = {}
    /\ catalog = [n \in Names |-> <<>>]
    /\ bottle \in [Names -> BottleMenu]
    /\ cellar \in {c \in [Names -> {<<>>, <<{StableVersion}>>}] :
                      Cardinality({n \in Names : c[n] # <<>>}) >= 2}
    /\ cache = {}
    /\ prefix = EmptyPrefix
    /\ inst = IdleInst
    /\ warnings = <<>>
    /\ op = NoOp

NextLink ==
    \/ \E pkg \in Names : LinkCmd(pkg)
    \/ \E pkg \in Names : UnlinkCmd(pkg)
    \/ \E path \in ForeignPaths, entry \in ForeignEntries : ForeignWrite(path, entry)

SpecLink == InitLink /\ [][NextLink]_vars

\* package names in the order os.ReadDir lists <Cellar>
NameOrder == <<"a", "b", "c">>

\* every installed keg linked at its last version, in name order
RECURSIVE LinkEach(_, _)
LinkEach(pf, names) ==
    IF names = <<>> THEN pf
    ELSE LinkEach(IF findInstalledVersion(Head(names)) = <<>> THEN pf
                  ELSE Link(pf, Head(names), findInstalledVersion(Head(names))[1]).prefix,
                  Tail(names))

\* the kegs of InitLink, none of them linked or all of them linked
InitUninstall ==
    /\ StateMachineIdle
    /\ DownloadIdle
    /\ ServicesIdle
    /\ pinned = {}
    /\ catalog = [n \in Names |-> <<>>]
    /\ bottle \in [Names -> BottleMenu]
    /\ cellar \in {c \in [Names -> {<<>>, <<{StableVersion}>>}] :
                      Cardinality({n \in Names : c[n] # <<>>}) >= 2}
    /\ cache = {}
    /\ prefix \in {EmptyPrefix, LinkEach(EmptyPrefix, NameOrder)}
    /\ inst = IdleInst
    /\ warnings = <<>>
    /\ op = NoOp

\* the link, unlink, uninstall and reinstall commands on a prefix tree only
\* fastbrew writes; a reinstall is the first command of a run
NextUninstall ==
    \/ \E pkg \in Names : LinkCmd(pkg)
    \/ \E pkg \in Names : UnlinkCmd(pkg)
    \/ \E pkg \in Names : UninstallCmd(pkg)
    \/ \E args \in Requests, clientOk \in BOOLEAN :
          \E outs \in [DOMAIN args -> ReinstallOutcomes] :
             op = NoOp /\ ReinstallCmd(args, outs, clientOk)

SpecUninstall == InitUninstall /\ [][NextUninstall]_vars

(***************************************************************************)
(* cmd/upgrade.go and internal/brew/upgrade.go: the upgrade command and    *)
(* the pinned file                                                         *)
(***************************************************************************)
SeqRange(q) == {q[i] : i \in DOMAIN q}

\* ListInstalledNative (client.go 64-105): the kegs with at least one version
\* directory, each with its last version directory
ListInstalledNative ==
    LET present == SelectSeq(NameOrder, LAMBDA n : findInstalledVersion(n) # <<>>) IN
    [i \in DOMAIN present |->
        [Name |-> present[i], Version |-> findInstalledVersion(present[i])[1]]]

\* GetOutdated (doctor.go 803-864): the names of the installed formulae whose
\* version differs from the version of the index; the version directories of
\* the model carry no revision suffix for stripRevision to strip
GetOutdated ==
    LET old == SelectSeq(ListInstalledNative, LAMBDA pk : pk.Version # StableVersion) IN
    [i \in DOMAIN old |-> old[i].Name]

\* upgradeCmd lines 27-59, with pins the map loadPinnedPackages handed over:
\* the packages handed to UpgradeNative, the packages reported as skipped,
\* whether the command returns before UpgradeNative, and whether it exits
\* with 1 because its own GetOutdated call (line 43) failed, before any line
\* about a skipped package
UpgradeFilter(args, pins, outdatedOk) ==
    IF Len(args) > 0
    THEN LET filtered == SelectSeq(args, LAMBDA n : n \notin pins) IN
         [filtered |-> filtered,
          skipped |-> SelectSeq(args, LAMBDA n : n \in pins),
          return |-> filtered = <<>>, err |-> FALSE]
    ELSE IF pins # {}
    THEN IF ~outdatedOk
         THEN [filtered |-> <<>>, skipped |-> <<>>, return |-> TRUE, err |-> TRUE]
         ELSE LET filtered == SelectSeq(GetOutdated, LAMBDA n : n \notin pins) IN
              [filtered |-> filtered,
               skipped |-> SelectSeq(GetOutdated, LAMBDA n : n \in pins),
               return |-> filtered = <<>>, err |-> FALSE]
    ELSE [filtered |-> <<>>, skipped |-> <<>>, return |-> FALSE, err |-> FALSE]

\* UpgradeNative lines 13-31: the outdated packages, filtered by the requested
\* names when there are any
UpgradeNativeTargets(packages) ==
    IF Len(packages) > 0
    THEN SelectSeq(GetOutdated, LAMBDA n : n \in SeqRange(packages))
    ELSE GetOutdated

\* the sequences that hold every element of the set S once
Orderings(S) ==
    {q \in [1..Cardinality(S) -> S] : \A i, j \in DOMAIN q : i # j => q[i] # q[j]}

\* the lines "Skipping pinned package" printed for the packages of skipped
SkipReports(skipped) == [i \in DOMAIN skipped |-> [skippingPinned |-> skipped[i]]]

\* the call of the upgrade command that returns an error, if one does:
\* NewClient (upgradeCmd line 16), the GetOutdated of the command (line 43)
\* or the GetOutdated of UpgradeNative (upgrade.go line 13)
UpgradeFaults == {"none", "NewClient", "GetOutdated", "UpgradeNative"}

\* upgradeCmd with UpgradeNative and upgradeFormulae lines 77-119. A failure
\* of NewClient ends the command with 1. The error of loadPinnedPackages is
\* dropped (line 25): seen is the map the command goes on with, the whole
\* pinned file after a clean read, nothing when the file cannot be opened,
\* the lines read so far when the scanner fails. The pinned packages of seen
\* are filtered out, UpgradeNative asks for the outdated packages again, the
\* metadata of the remaining outdated packages is fetched (order lists the
\* packages whose fetch succeeded, in the order the fetches ended) and the
\* install phase starts
UpgradeStart(args, seen, fault, order) ==
    /\ inst.phase = "idle"
    /\ seen \subseteq pinned
    /\ LET clientOk == fault # "NewClient"
           outdatedOk == fault # "GetOutdated"
           nativeOk == fault # "UpgradeNative"
           f == UpgradeFilter(args, seen, outdatedOk)
           exits == ~clientOk \/ f.err
           targets == IF exits \/ f.return \/ ~nativeOk THEN <<>>
                      ELSE UpgradeNativeTargets(f.filtered)
       IN
       /\ SeqRange(order) \subseteq SeqRange(targets)
       /\ warnings' = IF clientOk THEN SkipReports(f.skipped) ELSE <<>>
       /\ IF exits
          THEN inst' = [IdleInst EXCEPT !.phase = "done", !.packages = args,
                                        !.result = "err"]
          ELSE IF f.return
          THEN inst' = [IdleInst EXCEPT !.phase = "done", !.packages = args,
                                        !.result = "ok"]
          ELSE IF ~nativeOk
          THEN inst' = [IdleInst EXCEPT !.phase = "done", !.packages = args,
                                        !.result = "err"]
          ELSE IF order = <<>>
          THEN inst' = [IdleInst EXCEPT !.phase = "done", !.packages = args,
                                        !.result = "ok"]
          ELSE inst' = [IdleInst EXCEPT !.phase = "installing", !.packages = args,
                                        !.queue = order,
                                        !.pending = SeqRange(order)]
    /\ UNCHANGED <<pinned, catalog, bottle, cellar, cache, prefix, op, smVars, dlVars, svcVars>>

\* pinCmd (root.go 122-142), run before the upgrade command
PinCmd(pkg) ==
    /\ inst.phase = "idle"
    /\ pinned' = pinned \cup {pkg}
    /\ UNCHANGED <<catalog, bottle, cellar, cache, prefix, inst, warnings, op, smVars, dlVars, svcVars>>

\* unpinCmd (root.go 148-168), run before the upgrade command
UnpinCmd(pkg) ==
    /\ inst.phase = "idle"
    /\ pinned' = pinned \ {pkg}
    /\ UNCHANGED <<catalog, bottle, cellar, cache, prefix, inst, warnings, op, smVars, dlVars, svcVars>>

\* kegs at the old version, at the version of the index, or absent, those
\* present linked
InitUpgrade ==
    /\ StateMachineIdle
    /\ DownloadIdle
    /\ ServicesIdle
    /\ pinned = {}
    /\ catalog = [n \in Names |-> <<>>]
    /\ bottle = ReinstallBottles
    /\ cellar \in [Names -> {<<>>, <<{"v0"}>>, <<{StableVersion}>>}]
    /\ cache = {}
    /\ prefix = LinkEach(EmptyPrefix, NameOrder)
    /\ inst = IdleInst
    /\ warnings = <<>>
    /\ op = NoOp

NextUpgrade ==
    \/ \E args \in DepLists(MaxRequested), seen \in SUBSET pinned, fault \in UpgradeFaults :
          \E fetched \in SUBSET SeqRange(GetOutdated) : \E order \in Orderings(fetched) :
             UpgradeStart(args, seen, fault, order)
    \/ \E pkg \in Names : PinCmd(pkg)
    \/ \E pkg \in Names : UnpinCmd(pkg)
    \/ \E p \in Names,
          step \in InstallSteps :
          InstallBottle(p, step)
    \/ InstallJoin
    \/ \E p \in Names : LinkParallelWorker(p)
    \/ LinkSequentialNext
    \/ LinkParallelReturn

SpecUpgrade == InitUpgrade /\ [][NextUpgrade]_vars

\* DownloadBottle lines 33-34: the tarball <cache>/<name>-<version>.bottle
BottleDest(name) == <<"cache", name, StableVersion>>

\* install and upgrade runs with the goroutines of the install phase, on
\* Cellars that hold kegs of the old version
InitSingleWriter ==
    /\ StateMachineIdle
    /\ DownloadIdle
    /\ ServicesIdle
    /\ pinned = {}
    /\ catalog \in ReinstallCatalogs
    /\ bottle = ReinstallBottles
    /\ cellar \in [Names -> {<<>>, <<{"v0"}>>}]
    /\ cache = {}
    /\ prefix = LinkEach(EmptyPrefix, NameOrder)
    /\ inst = IdleInst
    /\ warnings = <<>>
    /\ op = NoOp

NextSingleWriter ==
    \/ \E packages \in Requests, fetchOk \in BOOLEAN : InstallStart(packages, fetchOk)
    \/ \E args \in DepLists(MaxRequested), seen \in SUBSET pinned, fault \in UpgradeFaults :
          \E fetched \in SUBSET SeqRange(GetOutdated) : \E order \in Orderings(fetched) :
             UpgradeStart(args, seen, fault, order)
    \/ \E p \in Names : InstallAcquire(p)
    \/ \E p \in Names,
          step \in InstallSteps :
          InstallRelease(p, step)
    \/ InstallJoin
    \/ \E p \in Names : LinkParallelWorker(p)
    \/ LinkSequentialNext
    \/ LinkParallelReturn

SpecSingleWriter == InitSingleWriter /\ [][NextSingleWriter]_vars

(***************************************************************************)
(* The recursions over the dependency graph with the names they expand:    *)
(* visits lists, in order, the names for which the body of the recursive   *)
(* function ran past its visited test.                                     *)
(***************************************************************************)

\* collectNeeded, lines 310-323, with its expansions
RECURSIVE collectNeededVisits(_, _), collectNeededVisitsAll(_, _)
collectNeededVisits(name, st) ==
    IF name \in st.needed \/ isInstalled(name) THEN st
    ELSE collectNeededVisitsAll(catalog[name],
                                [needed |-> st.needed \cup {name},
                                 visits |-> Append(st.visits, name)])
collectNeededVisitsAll(names, st) ==
    IF names = <<>> THEN st
    ELSE collectNeededVisitsAll(Tail(names), collectNeededVisits(Head(names), st))

\* buildQueue, lines 377-399, with its expansions
RECURSIVE buildQueueVisits(_, _, _), buildQueueVisitsAll(_, _, _)
buildQueueVisits(name, st, details) ==
    IF name \in st.visited \/ isInstalled(name) THEN st
    ELSE IF name \notin details
         THEN [st EXCEPT !.visited = @ \cup {name}, !.visits = Append(@, name)]
    ELSE LET st1 == buildQueueVisitsAll(catalog[name],
                                        [st EXCEPT !.visited = @ \cup {name},
                                                   !.visits = Append(@, name)], details)
         IN [st1 EXCEPT !.queue = Append(@, name)]
buildQueueVisitsAll(names, st, details) ==
    IF names = <<>> THEN st
    ELSE buildQueueVisitsAll(Tail(names), buildQueueVisits(Head(names), st, details), details)

\* unique, part_013 lines 226-236: the first occurrences, in order
RECURSIVE unique(_)
unique(slice) ==
    IF slice = <<>> THEN <<>>
    ELSE LET front == unique(SubSeq(slice, 1, Len(slice) - 1))
             entry == slice[Len(slice)]
         IN IF \E i \in DOMAIN front : front[i] = entry THEN front ELSE Append(front, entry)

\* resolve of ResolveDeps, lines 601-616; every formula of the model is in
\* the index
RECURSIVE resolve(_, _), resolveDeps(_, _)
resolve(name, st) ==
    IF name \in st.visited THEN st
    ELSE resolveDeps(catalog[name], [st EXCEPT !.visited = @ \cup {name},
                                               !.visits = Append(@, name)])
resolveDeps(names, st) ==
    IF names = <<>> THEN st
    ELSE LET st1 == resolve(Head(names), st) IN
         resolveDeps(Tail(names), [st1 EXCEPT !.deps = Append(@, Head(names))])

\* a plausible slip: every requested package starts with an empty visited set
RECURSIVE resolveEach_freshVisited(_, _)
resolveEach_freshVisited(packages, st) ==
    IF packages = <<>> THEN st
    ELSE resolveEach_freshVisited(Tail(packages),
                                  resolve(Head(packages), [st EXCEPT !.visited = {}]))

\* lines 618-620: the loop over the requested packages
RECURSIVE resolveEach(_, _)
resolveEach(packages, st) ==
    IF packages = <<>> THEN st
    ELSE resolveEach(Tail(packages), resolve(Head(packages), st))

\* ResolveDeps(packages), lines 587-624
ResolveDeps(packages) ==
    LET st == resolveEach(packages, [visited |-> {}, deps |-> <<>>, visits |-> <<>>]) IN
    [deps |-> unique(st.deps), visits |-> st.visits]

\* markNeeded of findOrphanedPackages, autoremove.go 148-163
RECURSIVE markNeeded(_, _, _), markNeededDeps(_, _, _)
markNeeded(name, st, installedSet) ==
    IF name \in st.needed THEN st
    ELSE markNeededDeps(catalog[name],
                        [needed |-> st.needed \cup {name}, visits |-> Append(st.visits, name)],
                        installedSet)
markNeededDeps(names, st, installedSet) ==
    IF names = <<>> THEN st
    ELSE markNeededDeps(Tail(names),
                        IF Head(names) \in installedSet
                        THEN markNeeded(Head(names), st, installedSet) ELSE st,
                        installedSet)

RECURSIVE markNeededEach(_, _, _)
markNeededEach(leaves, st, installedSet) ==
    IF leaves = <<>> THEN st
    ELSE markNeededEach(Tail(leaves), markNeeded(Head(leaves), st, installedSet), installedSet)

\* findOrphanedPackages, autoremove.go 90-179: the installed packages, the
\* leaves among them in the order the map of leaves is ranged over, the
\* orphans and the expansions of markNeeded
findOrphanedPackages(leafOrder) ==
    LET installedSet == {n \in Names : findInstalledVersion(n) # <<>>}
        st == markNeededEach(leafOrder, [needed |-> {}, visits |-> <<>>], installedSet)
    IN [orphans |-> SelectSeq(NameOrder, LAMBDA n : n \in installedSet /\ n \notin st.needed),
        visits |-> st.visits]

\* the leaves of findOrphanedPackages, lines 121-145: the installed packages
\* no installed package depends on
Leaves ==
    LET installedSet == {n \in Names : findInstalledVersion(n) # <<>>} IN
    {n \in installedSet : ~\E m \in installedSet : n \in SeqRange(catalog[m])}

\* `fastbrew deps <packages>`, cmd/deps.go line 23
DepsCmd(packages) ==
    /\ op = NoOp
    /\ inst = IdleInst
    /\ LET r == ResolveDeps(packages) IN
       op' = [kind |-> "deps", name |-> "", err |-> Nil, packages |-> packages,
              result |-> r.deps, visits |-> r.visits]
    /\ UNCHANGED <<pinned, catalog, bottle, cellar, cache, prefix, inst, warnings,
                   smVars, dlVars, svcVars>>

\* the call of the autoremove command that returns an error, if one does:
\* NewClient (line 28), or ListInstalledNative or LoadIndex within
\* findOrphanedPackages (lines 91, 100)
AutoremoveFaults == {"none", "NewClient", "ListInstalledNative", "LoadIndex"}

\* the answer to the prompt of line 57, trimmed and in lower case
Responses == {"y", "yes", "n", ""}

\* autoremoveCmd lines 69-82: for every orphan os.RemoveAll of its keg
\* directory and, unless that fails (stuck), Unlink on the cellar without it;
\* st holds the cellar and the prefix tree so far and the count of removals
RECURSIVE removeOrphans(_, _, _)
removeOrphans(orphans, stuck, st) ==
    IF orphans = <<>> THEN st
    ELSE IF Head(orphans) \in stuck THEN removeOrphans(Tail(orphans), stuck, st)
    ELSE LET pkg == Head(orphans)
             without == [st.cellar EXCEPT ![pkg] = <<>>]
         IN removeOrphans(Tail(orphans), stuck,
                          [cellar |-> without,
                           prefix |-> UnlinkAt(without, st.prefix, pkg).prefix,
                           removed |-> st.removed + 1])

\* `fastbrew autoremove`, cmd/autoremove.go lines 27-85: a failing call ends
\* the command with 1; the orphans are listed; with --dry-run, or unless the
\* answer to the prompt is y or yes, nothing is removed; otherwise the keg
\* directories of the orphans are removed
AutoremoveCmd(leafOrder, dryRun, response, stuck, fault) ==
    /\ op = NoOp
    /\ inst = IdleInst
    /\ SeqRange(leafOrder) = Leaves
    /\ LET r == findOrphanedPackages(leafOrder)
           failed == \/ fault \in {"NewClient", "ListInstalledNative"}
                     \/ fault = "LoadIndex" /\ ListInstalledNative # <<>>
           confirmed == ~dryRun /\ response \in {"y", "yes"}
           start == [cellar |-> cellar, prefix |-> prefix, removed |-> 0]
           st == IF failed \/ ~confirmed THEN start
                 ELSE removeOrphans(r.orphans, stuck, start)
       IN
       /\ stuck \subseteq SeqRange(r.orphans)
       /\ cellar' = st.cellar
       /\ prefix' = st.prefix
       /\ op' = IF failed
                THEN [kind |-> "autoremove", name |-> "", err |-> fault, packages |-> <<>>,
                      result |-> <<>>, visits |-> <<>>, removed |-> 0]
                ELSE [kind |-> "autoremove", name |-> "", err |-> Nil, packages |-> <<>>,
                      result |-> r.orphans, visits |-> r.visits, removed |-> st.removed]
    /\ UNCHANGED <<pinned, catalog, bottle, cache, inst, warnings, smVars, dlVars, svcVars>>

\* the three traversals on every catalog, cyclic ones included
NextTraverse ==
    \/ \E packages \in Requests, fetchOk \in BOOLEAN :
          op = NoOp /\ InstallStart(packages, fetchOk)
    \/ \E packages \in Requests : DepsCmd(packages)
    \/ \E leafOrder \in Orderings(Leaves), dryRun \in BOOLEAN, response \in Responses,
          fault \in AutoremoveFaults :
          \E stuck \in SUBSET SeqRange(findOrphanedPackages(leafOrder).orphans) :
             AutoremoveCmd(leafOrder, dryRun, response, stuck, fault)

SpecTraverse == InitResolve /\ [][NextTraverse]_vars

(***************************************************************************)
(* package retry (DoWithConfig, WithResultConfig, NonRetryable)            *)
(***************************************************************************)
\* the error the operation returns from its k-th invocation
OpError(k) == Error([kind |-> "op", attempt |-> k, nonRetryable |-> FALSE])

\* context.Canceled
ContextCanceled == Error([kind |-> "context canceled", attempt |-> 0, nonRetryable |-> FALSE])

\* NonRetryable: nil stays nil, an error is wrapped in the marker type
NonRetryable(err) ==
    IF err = NoError THEN NoError ELSE Error([err[1] EXCEPT !.nonRetryable = TRUE])

\* IsRetryable: errors.As does not find the marker type
IsRetryable(err) == ~(err # NoError /\ err[1].nonRetryable)

\* a plausible slip: the context is never found cancelled
ctxErr_ignored(cancelled) == NoError

\* ctx.Err()
ctxErr(cancelled) == IF cancelled THEN ContextCanceled ELSE NoError

\* a plausible slip: the loop ends one attempt early
LoopContinues_offByOne(attempt, max) == attempt < max

\* the loop condition attempt <= cfg.MaxAttempts
LoopContinues(attempt, max) == attempt <= max

\* what the k-th invocation of the operation returns
FnOutcomes == {"ok", "err", "nonretryable"}
FnError(outcome, k) ==
    CASE outcome = "ok" -> NoError
      [] outcome = "err" -> OpError(k)
      [] outcome = "nonretryable" -> NonRetryable(OpError(k))

\* the wrapper returns
RetryReturn(r, err) == [r EXCEPT !.pc = "done", !.err = err]

\* Do / WithResult are called with cfg.MaxAttempts = max
RetryStart(form, max) ==
    /\ retry.pc = "idle"
    /\ retry' = [IdleRetry EXCEPT !.form = form, !.MaxAttempts = max,
                                  !.pc = "top", !.attempt = 1]
    /\ UNCHANGED <<smVars, dlVars, pkgVars, progress, sec, search, maint, ext, client>>

\* lines 275-280 (314-320): the loop condition, the check of the context
\* and the invocation of the operation
RetryAttempt ==
    /\ retry.pc = "top"
    /\ retry' =
         IF ~LoopContinues(retry.attempt, retry.MaxAttempts)
         THEN RetryReturn(retry, retry.lastErr)
         ELSE IF ctxErr(retry.cancelled) # NoError
         THEN RetryReturn(retry, ctxErr(retry.cancelled))
         ELSE [retry EXCEPT !.pc = "running", !.calls = @ + 1]
    /\ UNCHANGED <<smVars, dlVars, pkgVars, progress, sec, search, maint, ext, client>>

\* lines 280-299 (320-344): the operation returns; DoWithConfig does not
\* consult IsRetryable, WithResultConfig does (lines 328-330)
RetryFnReturn(outcome) ==
    /\ retry.pc = "running"
    /\ LET err == FnError(outcome, retry.calls)
           r == [retry EXCEPT !.outcomes = Append(@, outcome),
                              !.result = IF retry.form = "WithResult"
                                         THEN retry.calls ELSE @]
       IN
       retry' =
         IF err = NoError THEN RetryReturn(r, NoError)
         ELSE LET r1 == [r EXCEPT !.lastErr = err] IN
              IF retry.attempt = retry.MaxAttempts
              THEN RetryReturn(r1, err)
              ELSE IF retry.form = "WithResult" /\ ~IsRetryable(err)
              THEN RetryReturn(r1, err)
              ELSE [r1 EXCEPT !.pc = "wait"]
    /\ UNCHANGED <<smVars, dlVars, pkgVars, progress, sec, search, maint, ext, client>>

\* lines 290-292 (335-337): the select takes the case of ctx.Done()
RetryWaitCancelled ==
    /\ retry.pc = "wait"
    /\ retry.cancelled
    /\ retry' = RetryReturn(retry, ctxErr(retry.cancelled))
    /\ UNCHANGED <<smVars, dlVars, pkgVars, progress, sec, search, maint, ext, client>>

\* lines 293-297 (338-342): the select takes the case of the timer, also
\* when the context is done as well
RetryWaitTimer ==
    /\ retry.pc = "wait"
    /\ retry' = [retry EXCEPT !.pc = "top", !.waits = @ + 1, !.attempt = @ + 1]
    /\ UNCHANGED <<smVars, dlVars, pkgVars, progress, sec, search, maint, ext, client>>

\* the caller cancels the context: before an attempt, while the operation
\* runs, or during the backoff wait
RetryCancel ==
    /\ retry.pc \in {"top", "running", "wait"}
    /\ ~retry.cancelled
    /\ retry' = [retry EXCEPT !.cancelled = TRUE, !.cancelledAt = retry.pc,
                              !.callsAtCancel = retry.calls]
    /\ UNCHANGED <<smVars, dlVars, pkgVars, progress, sec, search, maint, ext, client>>

InitRetry ==
    /\ StateMachineIdle
    /\ DownloadIdle
    /\ PackagesIdle
    /\ maint = IdleMaint
    /\ ext = IdleExt
    /\ client = IdleClient
    /\ retry = IdleRetry
    /\ progress = IdleProgress
    /\ sec = IdleSec
    /\ search = IdleSearch

NextRetry ==
    \/ \E form \in {"Do", "WithResult"}, max \in 1..MaxRetryAttempts : RetryStart(form, max)
    \/ RetryAttempt
    \/ \E outcome \in FnOutcomes : RetryFnReturn(outcome)
    \/ RetryWaitCancelled
    \/ RetryWaitTimer
    \/ RetryCancel

SpecRetry == InitRetry /\ [][NextRetry]_vars

(***************************************************************************)
(* Progress events: baseTracker.trySend puts events on the Manager's       *)
(* events channel, the event router takes them off and EventBus.Publish    *)
(* offers each one to every subscribed channel.                            *)
(***************************************************************************)

\* ProgressEvent values, told apart only by identity
Events == {"e1", "e2"}

\* buffer sizes the channels are made with: 0..MaxChanCap
MaxChanCap == 1

\* a buffered send can proceed: the channel has room
HasRoom(ch) == Len(ch.buf) < ch.cap

\* the select statement of trySend, Publish and Send can always proceed:
\* its default case is taken when the send case is not ready
SelectReady_noDefault(ch, receiverWaiting) == ch.closed \/ HasRoom(ch) \/ receiverWaiting

SelectReady(ch, receiverWaiting) == TRUE

\* NewManagerWithBuffer(bufferSize)
NewManagerWithBuffer(bufferSize) == [IdleProgress EXCEPT !.events = MakeChan(bufferSize)]

\* ids subscribed to the bus
Subscribed(pr) == {id \in SubIds : pr.channels[id] # <<>>}

\* the process has not died of a panic
Running == progress.last.op # "panic"

\* a tracker method (Start, Update, Complete, Error) reaches trySend(event)
TrackerCall(event) ==
    /\ Running
    /\ progress.tracker.pc = "idle"
    /\ progress' = [progress EXCEPT !.tracker = [pc |-> "sending", event |-> event]]
    /\ UNCHANGED <<smVars, dlVars, pkgVars, retry, sec, search, maint, ext, client>>

\* what the event router holds once its range loop has taken an event off
\* m.events: it is about to call Publish and has not read the subscribers yet
RouterGets(router, event) ==
    [pc |-> "received", event |-> event, todo |-> {}]

\* trySend: select { case t.events <- event: default: } under a deferred
\* recover(). delivered says whether a router blocked in the receive takes
\* the event of an unbuffered send.
TrySend(delivered) ==
    LET ch == progress.events
        ev == progress.tracker.event
        waiting == progress.router.pc = "receive" /\ ch.buf = <<>>
    IN  /\ Running
        /\ progress.tracker.pc = "sending"
        /\ SelectReady(ch, waiting)
        /\ delivered => (~ch.closed /\ ~HasRoom(ch) /\ waiting)
        /\ progress' =
             [progress EXCEPT
                !.tracker = [pc |-> "idle", event |-> "none"],
                !.events.buf = IF ~ch.closed /\ HasRoom(ch) THEN Append(@, ev) ELSE @,
                !.router = IF delivered
                           THEN RouterGets(@, ev)
                           ELSE @,
                !.last = [op |-> "trySend",
                          full |-> ~ch.closed /\ ~HasRoom(ch) /\ ~delivered]]
        /\ UNCHANGED <<smVars, dlVars, pkgVars, retry, sec, search, maint, ext, client>>

\* StartEventRouter: the receive of for event := range m.events
RouterReceive ==
    /\ Running
    /\ progress.router.pc = "receive"
    /\ progress.events.buf # <<>>
    /\ progress' =
         [progress EXCEPT
            !.events.buf = Tail(@),
            !.router = RouterGets(@, Head(progress.events.buf))]
    /\ UNCHANGED <<smVars, dlVars, pkgVars, retry, sec, search, maint, ext, client>>

\* the range loop of StartEventRouter ends once the channel is closed and drained
RouterExit ==
    /\ Running
    /\ progress.router.pc = "receive"
    /\ progress.events.closed
    /\ progress.events.buf = <<>>
    /\ progress' = [progress EXCEPT !.router.pc = "exited"]
    /\ UNCHANGED <<smVars, dlVars, pkgVars, retry, sec, search, maint, ext, client>>

\* Publish takes the read lock and starts to range over the channels that
\* are subscribed at that moment; with none the loop body never runs
PublishBegin ==
    /\ Running
    /\ progress.router.pc = "received"
    /\ progress' =
         [progress EXCEPT
            !.router = IF Subscribed(progress) = {}
                       THEN [pc |-> "receive", event |-> "none", todo |-> {}]
                       ELSE [@ EXCEPT !.pc = "publishing", !.todo = Subscribed(progress)]]
    /\ UNCHANGED <<smVars, dlVars, pkgVars, retry, sec, search, maint, ext, client>>

\* one iteration of Publish's loop: select { case ch <- event: default: }.
\* The map is ranged over in any order; delivered says whether a subscriber
\* blocked in a receive takes the event of an unbuffered send.
PublishOne(id, delivered) ==
    LET ch == progress.channels[id][1]
        ev == progress.router.event
        rest == progress.router.todo \ {id}
    IN  /\ Running
        /\ progress.router.pc = "publishing"
        /\ id \in progress.router.todo
        /\ SelectReady(ch, delivered)
        /\ delivered => (~HasRoom(ch) /\ ch.buf = <<>>)
        /\ progress' =
             [progress EXCEPT
                !.channels[id] = IF HasRoom(ch) THEN <<[ch EXCEPT !.buf = Append(@, ev)]>> ELSE @,
                !.router = IF rest = {}
                           THEN [pc |-> "receive", event |-> "none", todo |-> {}]
                           ELSE [@ EXCEPT !.todo = rest],
                !.last = [op |-> "publish", full |-> ~HasRoom(ch) /\ ~delivered]]
        /\ UNCHANGED <<smVars, dlVars, pkgVars, retry, sec, search, maint, ext, client>>

\* EventBus.Subscribe under the write lock, which Publish's read lock excludes
Subscribe(id, bufferSize) ==
    /\ Running
    /\ progress.router.pc # "publishing"
    /\ progress' = [progress EXCEPT !.channels[id] = <<MakeChan(bufferSize)>>]
    /\ UNCHANGED <<smVars, dlVars, pkgVars, retry, sec, search, maint, ext, client>>

\* EventBus.Unsubscribe under the write lock
Unsubscribe(id) ==
    /\ Running
    /\ progress.router.pc # "publishing"
    /\ progress.channels[id] # <<>>
    /\ progress' = [progress EXCEPT !.channels[id] = <<>>]
    /\ UNCHANGED <<smVars, dlVars, pkgVars, retry, sec, search, maint, ext, client>>

\* a subscriber takes an event off its channel
SubscriberReceive(id) ==
    /\ Running
    /\ progress.channels[id] # <<>>
    /\ progress.channels[id][1].buf # <<>>
    /\ progress' = [progress EXCEPT !.channels[id][1].buf = Tail(@)]
    /\ UNCHANGED <<smVars, dlVars, pkgVars, retry, sec, search, maint, ext, client>>

\* Manager.Close: close(m.events), which panics on a channel already closed;
\* no caller recovers, so the panic ends the process with its goroutines
ManagerClose ==
    /\ Running
    /\ progress' = IF progress.events.closed
                   THEN [progress EXCEPT
                           !.last = [op |-> "panic", full |-> FALSE],
                           !.tracker = [pc |-> "dead", event |-> "none"],
                           !.router = [pc |-> "dead", event |-> "none", todo |-> {}]]
                   ELSE [progress EXCEPT !.events.closed = TRUE,
                                         !.last = [op |-> "close", full |-> FALSE]]
    /\ UNCHANGED <<smVars, dlVars, pkgVars, retry, sec, search, maint, ext, client>>

InitProgress ==
    /\ StateMachineIdle
    /\ DownloadIdle
    /\ PackagesIdle
    /\ maint = IdleMaint
    /\ ext = IdleExt
    /\ client = IdleClient
    /\ retry = IdleRetry
    /\ sec = IdleSec
    /\ search = IdleSearch
    /\ \E bufferSize \in 0..MaxChanCap : progress = NewManagerWithBuffer(bufferSize)

NextProgress ==
    \/ \E event \in Events : TrackerCall(event)
    \/ \E delivered \in BOOLEAN : TrySend(delivered)
    \/ RouterReceive
    \/ RouterExit
    \/ PublishBegin
    \/ \E id \in SubIds, delivered \in BOOLEAN : PublishOne(id, delivered)
    \/ \E id \in SubIds, bufferSize \in 0..MaxChanCap : Subscribe(id, bufferSize)
    \/ \E id \in SubIds : Unsubscribe(id)
    \/ \E id \in SubIds : SubscriberReceive(id)
    \/ ManagerClose

SpecProgress == InitProgress /\ [][NextProgress]_vars

(***************************************************************************)
(* SafeEventChannel: Send and Close called from several goroutines. Each    *)
(* call is a sequence of steps under sec.mu: lock, read sec.closed, then    *)
(* close(sec.ch) and sec.closed = true, or the select on sec.ch, and the    *)
(* deferred unlock. A send on or a close of a closed channel panics.        *)
(***************************************************************************)

\* sec.mu.Lock() returns only when no goroutine holds the mutex
MutexFree_always(mu) == TRUE

MutexFree(mu) == mu = "free"

\* NewSafeEventChannel(bufferSize)
NewSafeEventChannel(bufferSize) == [IdleSec EXCEPT !.ch = MakeChan(bufferSize)]

\* the operations of a SafeEventChannel that take the mutex and touch the channel
SecOps == {"Send", "Close"}

\* goroutine x calls Send(event) or Close() and gets the mutex
SecLock(x, o, event) ==
    /\ ~sec.panicked
    /\ sec.g[x].pc = "idle"
    /\ MutexFree(sec.mu)
    /\ sec' = [sec EXCEPT
                 !.mu = x,
                 !.g[x] = [pc |-> "check", op |-> o,
                           event |-> IF o = "Send" THEN event ELSE "none",
                           ret |-> "none", afterClose |-> sec.closeReturned]]
    /\ UNCHANGED <<smVars, dlVars, pkgVars, retry, progress, search, maint, ext, client>>

\* if sec.closed { return false } in Send, if !sec.closed { ... } in Close
SecCheck(x) ==
    /\ ~sec.panicked
    /\ sec.g[x].pc = "check"
    /\ sec' = [sec EXCEPT
                 !.g[x].pc = IF sec.closed THEN "unlock"
                             ELSE IF sec.g[x].op = "Close" THEN "closeCh" ELSE "select",
                 !.g[x].ret = IF sec.closed /\ sec.g[x].op = "Send" THEN "false" ELSE @]
    /\ UNCHANGED <<smVars, dlVars, pkgVars, retry, progress, search, maint, ext, client>>

\* close(sec.ch)
SecCloseCh(x) ==
    /\ ~sec.panicked
    /\ sec.g[x].pc = "closeCh"
    /\ sec' = [sec EXCEPT
                 !.panicked = sec.ch.closed,
                 !.ch.closed = TRUE,
                 !.g[x].pc = "setClosed"]
    /\ UNCHANGED <<smVars, dlVars, pkgVars, retry, progress, search, maint, ext, client>>

\* sec.closed = true
SecSetClosed(x) ==
    /\ ~sec.panicked
    /\ sec.g[x].pc = "setClosed"
    /\ sec' = [sec EXCEPT !.closed = TRUE, !.g[x].pc = "unlock"]
    /\ UNCHANGED <<smVars, dlVars, pkgVars, retry, progress, search, maint, ext, client>>

\* select { case sec.ch <- event: return true; default: return false }.
\* delivered says whether a receiver blocked on the channel takes the event
\* of a send that finds no room in the buffer.
SecSelect(x, delivered) ==
    LET ch == sec.ch
        sent == ~ch.closed /\ (HasRoom(ch) \/ delivered)
    IN  /\ ~sec.panicked
        /\ sec.g[x].pc = "select"
        /\ SelectReady(ch, delivered)
        /\ delivered => (~HasRoom(ch) /\ ch.buf = <<>>)
        /\ sec' = [sec EXCEPT
                     !.panicked = ch.closed,
                     !.ch.buf = IF ~ch.closed /\ HasRoom(ch)
                                THEN Append(@, sec.g[x].event) ELSE @,
                     !.g[x].pc = "unlock",
                     !.g[x].ret = IF sent THEN "true" ELSE "false"]
        /\ UNCHANGED <<smVars, dlVars, pkgVars, retry, progress, search, maint, ext, client>>

\* the deferred sec.mu.Unlock() and the return
SecUnlock(x) ==
    /\ ~sec.panicked
    /\ sec.g[x].pc = "unlock"
    /\ sec' = [sec EXCEPT
                 !.mu = "free",
                 !.g[x].pc = "idle",
                 !.closeReturned = @ \/ sec.g[x].op = "Close"]
    /\ UNCHANGED <<smVars, dlVars, pkgVars, retry, progress, search, maint, ext, client>>

\* a consumer takes an event off the channel Receive() returned
SecReceive ==
    /\ ~sec.panicked
    /\ sec.ch.buf # <<>>
    /\ sec' = [sec EXCEPT !.ch.buf = Tail(@)]
    /\ UNCHANGED <<smVars, dlVars, pkgVars, retry, progress, search, maint, ext, client>>

InitSafeChannel ==
    /\ StateMachineIdle
    /\ DownloadIdle
    /\ PackagesIdle
    /\ maint = IdleMaint
    /\ ext = IdleExt
    /\ client = IdleClient
    /\ retry = IdleRetry
    /\ progress = IdleProgress
    /\ search = IdleSearch
    /\ \E bufferSize \in 0..MaxChanCap : sec = NewSafeEventChannel(bufferSize)

NextSafeChannel ==
    \/ \E x \in Goroutines, o \in SecOps, event \in Events : SecLock(x, o, event)
    \/ \E x \in Goroutines : SecCheck(x)
    \/ \E x \in Goroutines : SecCloseCh(x)
    \/ \E x \in Goroutines : SecSetClosed(x)
    \/ \E x \in Goroutines, delivered \in BOOLEAN : SecSelect(x, delivered)
    \/ \E x \in Goroutines : SecUnlock(x)
    \/ SecReceive

SpecSafeChannel == InitSafeChannel /\ [][NextSafeChannel]_vars

(***************************************************************************)
(* PrefixIndex: BuildIndex, SearchPrefix and SearchFuzzy. A string is a     *)
(* sequence of one-character strings; indices into items count from 0 as    *)
(* in the code.                                                             *)
(***************************************************************************)

\* the characters of names and queries: two lower-case letters and a capital
SearchChars == {"a", "b", "A"}

\* item names put into the index: shorter than minPrefixLength, exactly that
\* long, with a capital, and long enough to hold a query's characters apart
ItemNames ==
    { <<"b">>, <<"a", "b">>, <<"A", "b", "a">>, <<"b", "a", "b">>,
      <<"a", "b", "a", "a", "b">> }

\* the descriptions of the items: none, and one that holds a query character
ItemDescs == { <<>>, <<"b">> }

\* the SearchItem values put into the index (IsCask plays no part in it)
Items == [Name : ItemNames, Desc : ItemDescs]

\* at most MaxItems items are indexed
MaxItems == 2

\* queries have at most MaxQueryLen characters
MaxQueryLen == 4

minPrefixLength == 2

maxPrefixLength == 3

\* all sequences over S of length lo..hi
SeqsOf(S, lo, hi) == UNION {[1..n -> S] : n \in lo..hi}

\* strings.ToLower
ToLower(str) == [i \in DOMAIN str |-> IF str[i] = "A" THEN "a" ELSE str[i]]

\* the Go slice expression str[i:j]
Slice(str, i, j) == SubSeq(str, i + 1, j)

\* strings.HasPrefix
HasPrefix(str, pre) == Len(pre) <= Len(str) /\ Slice(str, 0, Len(pre)) = pre

\* strings.Contains
Contains(str, sub) ==
    \E i \in 0..(Len(str) - Len(sub)) : Slice(str, i, i + Len(sub)) = sub

\* the keys BuildIndex files an item under: every stretch of the lower-cased
\* name that is minPrefixLength..maxPrefixLength characters long
IndexKeys(name) ==
    {Slice(name, i, i + length) :
        <<length, i>> \in {<<l, k>> \in (minPrefixLength..maxPrefixLength) \X (0..Len(name)) :
                               l <= Len(name) /\ k <= Len(name) - l}}

\* BuildIndex: the prefixes map; each key's indices in the order of items,
\* every index once
BuildIndex(items) ==
    LET keysOf(idx) == IndexKeys(ToLower(items[idx + 1].Name))
        all == [i \in 1..Len(items) |-> i - 1]
        filed(key) == LET has(idx) == key \in keysOf(idx) IN SelectSeq(all, has)
    IN  [key \in UNION {keysOf(idx) : idx \in 0..(Len(items) - 1)} |-> filed(key)]

\* pi.prefixes[key], nil for a key the map does not hold
Lookup(prefixes, key) == IF key \in DOMAIN prefixes THEN prefixes[key] ELSE <<>>

\* filterByPrefix
filterByPrefix(pi, indices, query) ==
    LET keep(idx) == \/ HasPrefix(ToLower(pi.items[idx + 1].Name), query)
                     \/ Contains(ToLower(pi.items[idx + 1].Name), query)
        kept == SelectSeq(indices, keep)
    IN  [i \in DOMAIN kept |-> pi.items[kept[i] + 1]]

\* SearchPrefix
SearchPrefix(pi, query) ==
    IF Len(query) < minPrefixLength
    THEN pi.items
    ELSE LET p == ToLower(query) IN
         IF Len(p) > maxPrefixLength
         THEN filterByPrefix(pi, Lookup(pi.prefixes, Slice(p, 0, maxPrefixLength)), p)
         ELSE LET indices == Lookup(pi.prefixes, p)
              IN  [i \in DOMAIN indices |-> pi.items[indices[i] + 1]]

\* prefixSearchSource.String: what the fuzzy matcher is given for an item
SourceString(item) == item.Name \o <<" ">> \o item.Desc

\* searchSourceFromItems
searchSourceFromItems(items) == [i \in DOMAIN items |-> SourceString(items[i])]

\* the loop of fuzzy.FindFrom over the characters of one string, from
\* character j on (counted from 0): a character that equals the current
\* pattern character scores 10 at the start of the string, 20 after a lower
\* to upper case change, 20 after a separator, and the adjacency bonus
\* (twice the running bonus plus 5) right after the last matched index; the
\* best such score is added, less 5 for every leading unmatched character
\* (15 at most) for the first pattern character, when the next character
\* equals the next pattern character or the string ends. "" is the rune 0.
RECURSIVE FuzzyScan(_, _, _, _)
FuzzyScan(pattern, str, st, j) ==
    IF j >= Len(str) THEN st
    ELSE
    LET equalFold(tr, sr) == ToLower(<<tr>>) = ToLower(<<sr>>)
        isLower(r) == r \in {"a", "b"}
        isUpper(r) == r = "A"
        isSeparator(r) == r = " "
        candidate == str[j + 1]
        hit == equalFold(candidate, pattern[st.patternIndex + 1])
        bonus == IF st.MatchedIndexes # <<>> /\ st.MatchedIndexes[Len(st.MatchedIndexes)] = st.lastIndex
                 THEN st.currAdjacentMatchBonus * 2 + 5
                 ELSE 0
        score == (IF j = 0 THEN 10 ELSE 0)
                 + (IF isLower(st.last) /\ isUpper(candidate) THEN 20 ELSE 0)
                 + (IF j # 0 /\ isSeparator(st.last) THEN 20 ELSE 0)
                 + bonus
        s1 == IF hit
              THEN [st EXCEPT !.currAdjacentMatchBonus = @ + bonus,
                              !.bestScore = IF score > @ THEN score ELSE @,
                              !.matchedIndex = IF score > st.bestScore THEN j ELSE @]
              ELSE st
        nextp == IF s1.patternIndex < Len(pattern) - 1 THEN pattern[s1.patternIndex + 2] ELSE ""
        nextc == IF j + 1 < Len(str) THEN str[j + 2] ELSE ""
        penalty == IF s1.matchedIndex * (-5) > -15 THEN s1.matchedIndex * (-5) ELSE -15
        best == IF s1.MatchedIndexes = <<>> THEN s1.bestScore + penalty ELSE s1.bestScore
        s2 == IF (equalFold(nextp, nextc) \/ nextc = "") /\ s1.matchedIndex > -1
              THEN [s1 EXCEPT !.Score = @ + best,
                              !.MatchedIndexes = Append(@, s1.matchedIndex),
                              !.bestScore = -1,
                              !.patternIndex = @ + 1]
              ELSE s1
    IN  FuzzyScan(pattern, str, [s2 EXCEPT !.lastIndex = j, !.last = candidate], j + 1)

\* the fuzzy.Match of one string of the source, with one point off for
\* every unmatched character; matched says whether FindFrom keeps it
FuzzyMatch(pattern, str, index) ==
    LET st == FuzzyScan(pattern, str,
                        [Score |-> 0, MatchedIndexes |-> <<>>, patternIndex |-> 0,
                         bestScore |-> -1, matchedIndex |-> -1,
                         currAdjacentMatchBonus |-> 0, last |-> "", lastIndex |-> 0], 0)
    IN  [Str |-> str, Index |-> index,
         Score |-> st.Score + Len(st.MatchedIndexes) - Len(str),
         MatchedIndexes |-> st.MatchedIndexes,
         matched |-> Len(st.MatchedIndexes) = Len(pattern)]

\* sort.Stable(matches) with Less(i, j) = matches[i].Score >= matches[j].Score,
\* an insertion sort for the lengths here: each match moves left past every
\* match whose score is not greater than its own
RECURSIVE StableSort(_, _)
StableSort(sorted, rest) ==
    IF rest = <<>> THEN sorted
    ELSE LET m == Head(rest)
             stays(x) == x.Score > m.Score
             moved(x) == ~(x.Score > m.Score)
         IN  StableSort(SelectSeq(sorted, stays) \o <<m>> \o SelectSeq(sorted, moved), Tail(rest))

\* fuzzy.FindFrom(pattern, source): the matching strings with their indices
\* in source, the best score first; nothing for the empty pattern
FuzzyFindFrom(pattern, source) ==
    LET all == [i \in DOMAIN source |-> FuzzyMatch(pattern, source[i], i - 1)]
        isMatch(m) == m.matched
        kept == SelectSeq(all, isMatch)
        matches == [i \in DOMAIN kept |->
                      [Str |-> kept[i].Str, Index |-> kept[i].Index,
                       Score |-> kept[i].Score, MatchedIndexes |-> kept[i].MatchedIndexes]]
    IN  IF pattern = <<>> THEN <<>> ELSE StableSort(<<>>, matches)

\* SearchFuzzy
SearchFuzzy(pi, query) ==
    IF Len(query) < minPrefixLength
    THEN FuzzyFindFrom(query, searchSourceFromItems(pi.items))
    ELSE LET lowered == ToLower(query)
             searchPrefix == IF Len(lowered) > maxPrefixLength
                             THEN Slice(lowered, 0, maxPrefixLength)
                             ELSE lowered
             candidateIndices == Lookup(pi.prefixes, searchPrefix)
             candidates == [i \in DOMAIN candidateIndices |-> pi.items[candidateIndices[i] + 1]]
             matches == FuzzyFindFrom(query, searchSourceFromItems(candidates))
         IN  IF Len(candidateIndices) = 0
             THEN <<>>
             ELSE [i \in DOMAIN matches |->
                     [matches[i] EXCEPT !.Index = candidateIndices[matches[i].Index + 1]]]

\* pi := NewPrefixIndex(), dropping the index there was
NewPrefixIndexCmd ==
    /\ search # IdleSearch
    /\ search' = IdleSearch
    /\ UNCHANGED <<smVars, dlVars, pkgVars, retry, progress, sec, maint, ext, client>>

\* pi.BuildIndex(items) on a new index
BuildIndexCmd(items) ==
    /\ search = IdleSearch
    /\ search' = [IdleSearch EXCEPT !.items = items, !.prefixes = BuildIndex(items)]
    /\ UNCHANGED <<smVars, dlVars, pkgVars, retry, progress, sec, maint, ext, client>>

\* pi.SearchPrefix(q). A search reads the index and leaves it as it is, so
\* one search is recorded for each index built.
SearchPrefixCmd(q) ==
    /\ search.op = "none"
    /\ search' = [search EXCEPT !.op = "SearchPrefix", !.q = q,
                                !.found = SearchPrefix(search, q), !.matches = <<>>]
    /\ UNCHANGED <<smVars, dlVars, pkgVars, retry, progress, sec, maint, ext, client>>

\* pi.SearchFuzzy(q)
SearchFuzzyCmd(q) ==
    /\ search.op = "none"
    /\ search' = [search EXCEPT !.op = "SearchFuzzy", !.q = q,
                                !.found = <<>>, !.matches = SearchFuzzy(search, q)]
    /\ UNCHANGED <<smVars, dlVars, pkgVars, retry, progress, sec, maint, ext, client>>

InitSearch ==
    /\ StateMachineIdle
    /\ DownloadIdle
    /\ PackagesIdle
    /\ maint = IdleMaint
    /\ ext = IdleExt
    /\ client = IdleClient
    /\ retry = IdleRetry
    /\ progress = IdleProgress
    /\ sec = IdleSec
    /\ search = IdleSearch

NextSearch ==
    \/ NewPrefixIndexCmd
    \/ \E items \in SeqsOf(Items, 0, MaxItems) : BuildIndexCmd(items)
    \/ \E q \in SeqsOf(SearchChars, 0, MaxQueryLen) : SearchPrefixCmd(q)
    \/ \E q \in SeqsOf(SearchChars, 0, MaxQueryLen) : SearchFuzzyCmd(q)

SpecSearch == InitSearch /\ [][NextSearch]_vars

(***************************************************************************)
(* The maintenance commands: doctor, the cache validator, the cache         *)
(* corruption checker and cleanup. maint.env holds what the checks find on  *)
(* the machine; maint.cacheDir, maint.files and maint.tarball are the cache *)
(* directory ~/.fastbrew/cache and its contents.                            *)
(***************************************************************************)

StatusOK == "OK"
StatusWarning == "WARNING"
StatusError == "ERROR"
StatusInfo == "INFO"

\* the index cache files ValidateAll looks at, in its order
IndexFiles == <<"formula.json.zst", "cask.json.zst", "search.gob.zst">>

\* a cache file is missing, decompresses and parses, or does not
FileStates == {"absent", "valid", "corrupt"}

\* what the command can find: the installation (no brew: HOMEBREW_PREFIX is
\* unset, none of the standard directories exists and `brew --prefix` fails;
\* no prefix: the prefix NewClient settled on is not a directory; no Cellar;
\* a Cellar that is not writable; or all there), broken links in bin, bin
\* entries of a keg without a link, an index older than 7 days, where the
\* Homebrew bin directory is in PATH, and whether the home directory is known
Environments ==
    {e \in [install : {"no brew", "no prefix", "no cellar", "read-only", "ok"},
            broken : BOOLEAN, stale : BOOLEAN, unlinked : BOOLEAN,
            path : {"empty", "absent", "later", "first"}, home : BOOLEAN] :
        /\ e.broken => e.install \notin {"no brew", "no prefix"}
        /\ e.unlinked => e.install \in {"read-only", "ok"}}

\* NewClient: whether it returns a client (the environment variable, one of
\* the standard directories or the output of `brew --prefix` gives a prefix)
\* rather than the error "could not find brew prefix"
NewClient(m) == m.env.install # "no brew"

\* Client.GetCacheDir: os.MkdirAll of the cache directory; the disk after
\* the call and whether it returned the directory
GetCacheDir(m) ==
    IF m.env.home THEN [m |-> [m EXCEPT !.cacheDir = TRUE], ok |-> TRUE]
    ELSE [m |-> m, ok |-> FALSE]

\* validateJSONCache and validateGOBCache: status.Valid
CacheFileValid(m, f) == m.cacheDir /\ m.files[f] = "valid"

\* CacheValidator.ValidateAll: the files whose status is not Valid
ValidateAll(m) == {f \in {IndexFiles[i] : i \in DOMAIN IndexFiles} : ~CacheFileValid(m, f)}

checkHomebrewInstallation(m) ==
    IF m.env.install = "no prefix" THEN StatusError
    ELSE IF m.env.install = "no cellar" THEN StatusWarning
    ELSE StatusOK

checkCellarPermissions(m) ==
    IF m.env.install \in {"no prefix", "no cellar"} THEN StatusOK
    ELSE IF m.env.install = "read-only" THEN StatusError
    ELSE StatusOK

checkBrokenSymlinks(m) == IF m.env.broken THEN StatusError ELSE StatusOK

\* checkOutdatedIndex, run on the disk GetCacheDir leaves
checkOutdatedIndex(m) ==
    LET g == GetCacheDir(m) IN
    IF ~g.ok THEN StatusOK
    ELSE IF g.m.files["formula.json.zst"] = "absent" THEN StatusWarning
    ELSE IF m.env.stale THEN StatusWarning
    ELSE StatusOK

\* a plausible slip: the disk space is reported as a piece of information
checkDiskSpace_info(m) == StatusInfo

\* checkDiskSpace: every return carries StatusOK
checkDiskSpace(m) == StatusOK

\* checkDuplicateBinaries: binaryMap is keyed by the entry's name, which a
\* directory holds once, so no name ever has two targets
checkDuplicateBinaries(m) == StatusOK

checkUnlinkedKegOnly(m) == IF m.env.unlinked THEN StatusWarning ELSE StatusOK

checkPathConfiguration(m) ==
    IF m.env.path = "empty" THEN StatusError
    ELSE IF m.env.path \in {"absent", "later"} THEN StatusWarning
    ELSE StatusOK

\* checkCacheIntegrity, run on the disk GetCacheDir leaves
checkCacheIntegrity(m) ==
    LET g == GetCacheDir(m) IN
    IF ~g.ok THEN StatusOK
    ELSE IF ValidateAll(g.m) # {} THEN StatusError
    ELSE StatusOK

\* Doctor.RunDiagnostics: the nine results in the order of their indices
RunDiagnostics(m) ==
    <<checkHomebrewInstallation(m), checkCellarPermissions(m), checkBrokenSymlinks(m),
      checkOutdatedIndex(m), checkDiskSpace(m), checkDuplicateBinaries(m),
      checkUnlinkedKegOnly(m), checkPathConfiguration(m), checkCacheIntegrity(m)>>

\* Doctor.GetExitCode
GetExitCode(results) ==
    IF \E i \in DOMAIN results : results[i] = StatusError \/ results[i] = StatusWarning
    THEN 1 ELSE 0

\* the doctor command: when NewClient fails, the error is printed and the
\* process exits with 1 before any check; otherwise RunDiagnostics,
\* PrintResults, os.Exit(GetExitCode)
DoctorCmd ==
    /\ maint.op = "none"
    /\ IF ~NewClient(maint)
       THEN maint' = [maint EXCEPT
                        !.op = "doctor", !.results = NoResults,
                        !.exit = <<1>>,
                        !.invalid = {}]
       ELSE LET results == RunDiagnostics(maint) IN
            maint' = [GetCacheDir(maint).m EXCEPT
                        !.op = "doctor", !.results = results,
                        !.exit = <<GetExitCode(results)>>,
                        !.invalid = {}]
    /\ UNCHANGED <<smVars, dlVars, pkgVars, retry, progress, sec, search, ext, client>>

\* NewCacheValidator(cacheDir).ValidateAll()
ValidateAllCmd ==
    /\ maint.op = "none"
    /\ maint' = [maint EXCEPT !.op = "validate", !.invalid = ValidateAll(maint)]
    /\ UNCHANGED <<smVars, dlVars, pkgVars, retry, progress, sec, search, ext, client>>

\* CacheCorruptionChecker.CheckAndRepair: os.Remove of every file whose
\* status is not Valid
CheckAndRepairCmd ==
    /\ maint.op = "none"
    /\ LET invalid == ValidateAll(maint) IN
       maint' = [maint EXCEPT
                   !.op = "repair", !.invalid = invalid,
                   !.files = [f \in DOMAIN @ |-> IF f \in invalid THEN "absent" ELSE @[f]]]
    /\ UNCHANGED <<smVars, dlVars, pkgVars, retry, progress, sec, search, ext, client>>

\* cleanupCmd lines 25-49: of a package with more than one version directory
\* every directory but the last one os.ReadDir lists is removed
RemoveOldVersions(cel) ==
    [n \in Names |->
        IF cel[n] = <<>> \/ Cardinality(cel[n][1]) <= 1 THEN cel[n]
        ELSE LET last == CHOOSE i \in DOMAIN VersionOrder :
                            /\ VersionOrder[i] \in cel[n][1]
                            /\ \A j \in DOMAIN VersionOrder :
                                  VersionOrder[j] \in cel[n][1] => j <= i
             IN <<{VersionOrder[last]}>>]

\* os.Stat through a link: a target in the Cellar exists when its version
\* directory does and the bottle holds the file; other targets are taken to exist
TargetExists(cel, target) ==
    IF Len(target) > 2 /\ target[1] = "Cellar"
    THEN /\ cel[target[2]] # <<>>
         /\ target[3] \in cel[target[2]][1]
         /\ Len(target) > 3 => <<target[4], target[5]>> \in bottle[target[2]]
    ELSE TRUE

\* cleanupCmd lines 72-97: the walk over bin, sbin, lib, include, share, etc
\* and opt removes every symlink whose target os.Stat does not find
RemoveBrokenSymlinks(cel, pf) ==
    [path \in DOMAIN pf |->
        IF pf[path].kind = "symlink" /\ ~TargetExists(cel, pf[path].target)
        THEN Absent ELSE pf[path]]

\* the cleanup command: the old version directories, the downloaded tarballs
\* of the cache directory (every plain file but the index files and the
\* resume sidecars) and the broken symlinks of the prefix are removed
CleanupCmd ==
    /\ maint.op = "none"
    /\ cellar' = RemoveOldVersions(cellar)
    /\ cache' = IF GetCacheDir(maint).ok THEN {} ELSE cache
    /\ prefix' = RemoveBrokenSymlinks(RemoveOldVersions(cellar), prefix)
    /\ maint' = [GetCacheDir(maint).m EXCEPT
                   !.op = "cleanup",
                   !.tarball = IF GetCacheDir(maint).ok THEN FALSE ELSE @]
    /\ UNCHANGED <<smVars, dlVars, pinned, catalog, bottle, inst, warnings, op,
                   retry, progress, sec, search, ext, client>>

\* the disks: no cache directory, or one with any index files and perhaps a tarball
Disks ==
    {m \in [cacheDir : BOOLEAN, tarball : BOOLEAN,
            files : [{IndexFiles[i] : i \in DOMAIN IndexFiles} -> FileStates]] :
        ~m.cacheDir => (~m.tarball /\ \A f \in DOMAIN m.files : m.files[f] = "absent")}

InitMaintenance ==
    /\ StateMachineIdle
    /\ DownloadIdle
    /\ PackagesIdle
    /\ retry = IdleRetry
    /\ progress = IdleProgress
    /\ sec = IdleSec
    /\ search = IdleSearch
    /\ ext = IdleExt
    /\ client = IdleClient
    /\ \E e \in Environments, d \in Disks :
         maint = [IdleMaint EXCEPT !.env = e, !.cacheDir = d.cacheDir,
                                   !.files = d.files, !.tarball = d.tarball]

\* the doctor on every environment and disk
NextDoctor == DoctorCmd

SpecDoctor == InitMaintenance /\ [][NextDoctor]_vars

\* the maintenance commands where the checks have nothing to report
InitDisk ==
    /\ InitMaintenance
    /\ maint.env = IdleMaint.env

NextMaintenance ==
    \/ DoctorCmd
    \/ ValidateAllCmd
    \/ CheckAndRepairCmd
    \/ CleanupCmd

SpecMaintenance == InitDisk /\ [][NextMaintenance]_vars

\* kegs at an old version, at the version of the index, or absent, those
\* present linked, on a disk without a cache directory
InitCleanup ==
    /\ StateMachineIdle
    /\ DownloadIdle
    /\ ServicesIdle
    /\ pinned = {}
    /\ catalog = [n \in Names |-> <<>>]
    /\ bottle = ReinstallBottles
    /\ cellar \in [Names -> {<<>>, <<{"v0"}>>, <<{"v9"}>>, <<{StableVersion}>>}]
    /\ cache = {}
    /\ prefix = LinkEach(EmptyPrefix, NameOrder)
    /\ inst = IdleInst
    /\ warnings = <<>>
    /\ op = NoOp

\* the upgrade command, and the cleanup command once no upgrade runs
NextCleanup ==
    \/ \E args \in DepLists(MaxRequested), seen \in SUBSET pinned, fault \in UpgradeFaults :
          \E fetched \in SUBSET SeqRange(GetOutdated) : \E order \in Orderings(fetched) :
             UpgradeStart(args, seen, fault, order)
    \/ \E p \in Names,
          step \in InstallSteps :
          InstallBottle(p, step)
    \/ InstallJoin
    \/ \E p \in Names : LinkParallelWorker(p)
    \/ LinkSequentialNext
    \/ LinkParallelReturn
    \/ inst.phase \in {"idle", "done"} /\ CleanupCmd

SpecCleanup == InitCleanup /\ [][NextCleanup]_vars

(***************************************************************************)
(* The catalogs and the files derived from them: EnsureFreshJSONs,         *)
(* GetSearchIndex, GetPrefixIndex and isFresh on a cache directory with a  *)
(* clock. A catalog holds the revision it was downloaded at; a derived     *)
(* file holds the revisions of the catalogs it was built from.             *)
(***************************************************************************)

\* the clock stops at MaxClock
MaxClock == 3

\* upstream publishes revisions 0..MaxRev of each catalog
MaxRev == 1

\* 24 hours, in ticks of the clock
Day == 1

\* the time a download or a build takes, in ticks
Durations == {0, 1}

\* what the network and the clock do during one call: whether the download
\* of each catalog succeeds, and how long the downloads and the build take
Runs == [fOk : BOOLEAN, cOk : BOOLEAN, df : Durations, dc : Durations, dg : Durations]

\* a file written at time t
FileAt(t, data) == <<[mtime |-> t, data |-> data]>>

\* isFresh(target, source): both files exist and target's ModTime is after source's
isFresh(disk, target, source) ==
    /\ disk[target] # <<>>
    /\ disk[source] # <<>>
    /\ disk[target][1].mtime > disk[source][1].mtime

\* shouldUpdate(path): the file is missing or older than 24 hours
shouldUpdate(disk, now, path) ==
    disk[path] = <<>> \/ now - disk[path][1].mtime > Day

\* downloadAndCompress of one catalog, taking d ticks: the client after it
\* and the error
downloadAndCompress(c, kind, path, ok, d) ==
    IF ok
    THEN [c |-> [c EXCEPT !.now = @ + d, !.disk[path] = FileAt(c.now + d, c.upstream[kind])],
          err |-> Nil]
    ELSE [c |-> [c EXCEPT !.now = @ + d], err |-> "download failed"]

\* EnsureFreshJSONs: the formula catalog, then the cask catalog
EnsureFreshJSONs(c, run) ==
    LET f == IF shouldUpdate(c.disk, c.now, "formula.json.zst")
             THEN downloadAndCompress(c, "formula", "formula.json.zst", run.fOk, run.df)
             ELSE [c |-> c, err |-> Nil]
    IN IF f.err # Nil THEN f
       ELSE IF shouldUpdate(f.c.disk, f.c.now, "cask.json.zst")
       THEN downloadAndCompress(f.c, "cask", "cask.json.zst", run.cOk, run.dc)
       ELSE f

\* LoadRawIndex and the items made of it: the revisions of the two catalogs
\* on disk
LoadRawIndex(disk) ==
    [formula |-> disk["formula.json.zst"][1].data, cask |-> disk["cask.json.zst"][1].data]

\* GetSearchIndex: the client after the call, the items returned (<<>> with
\* an error), the error, and whether the items came from search.gob.zst
GetSearchIndex(c, run, decodeOk) ==
    LET e == EnsureFreshJSONs(c, run) IN
    IF e.err # Nil THEN [c |-> e.c, items |-> <<>>, err |-> e.err, cached |-> FALSE]
    ELSE IF /\ isFresh(e.c.disk, "search.gob.zst", "formula.json.zst")
            /\ isFresh(e.c.disk, "prefix_index.gob", "formula.json.zst")
            /\ decodeOk
    THEN [c |-> e.c, items |-> <<e.c.disk["search.gob.zst"][1].data>>, err |-> Nil,
          cached |-> TRUE]
    ELSE LET items == LoadRawIndex(e.c.disk)
             t == e.c.now + run.dg
         IN [c |-> [e.c EXCEPT !.now = t,
                               !.disk["search.gob.zst"] = FileAt(t, items),
                               !.disk["prefix_index.gob"] = FileAt(t, items)],
             items |-> <<items>>, err |-> Nil, cached |-> FALSE]

\* ForceRefreshIndex: both catalogs are downloaded again at the same time,
\* whatever their age; when both downloads succeed the derived files are
\* removed, the index of the client is dropped with its sync.Once, and
\* GetSearchIndex builds the derived files anew
ForceRefreshIndex(c, run, decodeOk) ==
    LET end == c.now + (IF run.df > run.dc THEN run.df ELSE run.dc)
        disk1 == [c.disk EXCEPT
                    !["formula.json.zst"] =
                        IF run.fOk THEN FileAt(c.now + run.df, c.upstream.formula) ELSE @,
                    !["cask.json.zst"] =
                        IF run.cOk THEN FileAt(c.now + run.dc, c.upstream.cask) ELSE @]
        c1 == [c EXCEPT !.now = end, !.disk = disk1]
    IN IF ~(run.fOk /\ run.cOk)
       THEN [c |-> c1, items |-> <<>>, err |-> "download failed", cached |-> FALSE]
       ELSE GetSearchIndex([c1 EXCEPT !.disk["search.gob.zst"] = <<>>,
                                      !.disk["prefix_index.gob"] = <<>>,
                                      !.prefixIndex = <<>>,
                                      !.indexOnce = FALSE],
                           run, decodeOk)

\* LoadIndex: EnsureFreshJSONs, then LoadRawIndex; no derived file is written
LoadIndex(c, run) ==
    LET e == EnsureFreshJSONs(c, run) IN
    IF e.err # Nil THEN [c |-> e.c, items |-> <<>>, err |-> e.err]
    ELSE [c |-> e.c, items |-> <<LoadRawIndex(e.c.disk)>>, err |-> Nil]

\* NewPrefixIndex(), and an index after BuildIndex(items) or Load
EmptyIndex == [built |-> FALSE, items |-> <<>>]
BuiltIndex(items) == [built |-> TRUE, items |-> <<items>>]

\* whether indexOnce.Do has run its function
indexOnceDone(c) == c.indexOnce

\* GetPrefixIndex: the client after the call, the index returned (<<>> with
\* an error) and the error
GetPrefixIndex(c, run, decodeOk, loadOk) ==
    IF indexOnceDone(c) THEN [c |-> c, index |-> c.prefixIndex, err |-> Nil]
    ELSE LET c1 == [c EXCEPT !.indexOnce = TRUE, !.prefixIndex = <<EmptyIndex>>] IN
         IF isFresh(c1.disk, "prefix_index.gob", "formula.json.zst") /\ loadOk
         THEN LET c2 == [c1 EXCEPT !.prefixIndex =
                                      <<BuiltIndex(c1.disk["prefix_index.gob"][1].data)>>]
              IN [c |-> c2, index |-> c2.prefixIndex, err |-> Nil]
         ELSE LET g == GetSearchIndex(c1, run, decodeOk) IN
              IF g.err # Nil THEN [c |-> g.c, index |-> <<>>, err |-> g.err]
              ELSE LET c3 == [g.c EXCEPT
                                !.prefixIndex = <<BuiltIndex(g.items[1])>>,
                                !.disk["prefix_index.gob"] = FileAt(g.c.now, g.items[1])]
                   IN [c |-> c3, index |-> c3.prefixIndex, err |-> Nil]

\* time passes
Tick ==
    /\ client.now < MaxClock
    /\ client' = [client EXCEPT !.now = @ + 1]
    /\ UNCHANGED <<smVars, dlVars, pkgVars, retry, progress, sec, search, maint, ext>>

\* upstream publishes a new revision of a catalog
Publish(kind) ==
    /\ client.upstream[kind] < MaxRev
    /\ client' = [client EXCEPT !.upstream[kind] = @ + 1]
    /\ UNCHANGED <<smVars, dlVars, pkgVars, retry, progress, sec, search, maint, ext>>

\* NewClient() of the next command on the same cache directory
NewClientCmd ==
    /\ client.call.op # "none"
    /\ client' = [client EXCEPT !.indexOnce = FALSE, !.prefixIndex = <<>>,
                                !.first = "none", !.call = NoCall]
    /\ UNCHANGED <<smVars, dlVars, pkgVars, retry, progress, sec, search, maint, ext>>

\* c.GetSearchIndex()
GetSearchIndexCmd(run, decodeOk) ==
    LET g == GetSearchIndex(client, run, decodeOk) IN
    /\ g.c.now <= MaxClock
    /\ client' = [g.c EXCEPT !.call = [op |-> "GetSearchIndex", err |-> g.err,
                                       items |-> g.items, index |-> <<>>,
                                       cached |-> g.cached]]
    /\ UNCHANGED <<smVars, dlVars, pkgVars, retry, progress, sec, search, maint, ext>>

\* c.GetPrefixIndex(), as SearchFuzzyWithIndex calls it
GetPrefixIndexCmd(run, decodeOk, loadOk) ==
    LET g == GetPrefixIndex(client, run, decodeOk, loadOk) IN
    /\ g.c.now <= MaxClock
    /\ client' = [g.c EXCEPT !.call = [op |-> "GetPrefixIndex", err |-> g.err,
                                       items |-> <<>>, index |-> g.index,
                                       cached |-> FALSE],
                             !.first = IF @ # "none" THEN @
                                       ELSE IF g.err # Nil THEN "err" ELSE "ok"]
    /\ UNCHANGED <<smVars, dlVars, pkgVars, retry, progress, sec, search, maint, ext>>

\* c.ForceRefreshIndex(), the update command
ForceRefreshIndexCmd(run, decodeOk) ==
    LET g == ForceRefreshIndex(client, run, decodeOk) IN
    /\ g.c.now <= MaxClock
    /\ client' = [g.c EXCEPT !.call = [op |-> "ForceRefreshIndex", err |-> g.err,
                                       items |-> g.items, index |-> <<>>,
                                       cached |-> g.cached]]
    /\ UNCHANGED <<smVars, dlVars, pkgVars, retry, progress, sec, search, maint, ext>>

\* c.LoadIndex(), as leaves, autoremove and the resolver call it
LoadIndexCmd(run) ==
    LET g == LoadIndex(client, run) IN
    /\ g.c.now <= MaxClock
    /\ client' = [g.c EXCEPT !.call = [op |-> "LoadIndex", err |-> g.err,
                                       items |-> g.items, index |-> <<>>,
                                       cached |-> FALSE]]
    /\ UNCHANGED <<smVars, dlVars, pkgVars, retry, progress, sec, search, maint, ext>>

InitClient ==
    /\ StateMachineIdle
    /\ DownloadIdle
    /\ PackagesIdle
    /\ retry = IdleRetry
    /\ progress = IdleProgress
    /\ sec = IdleSec
    /\ search = IdleSearch
    /\ maint = IdleMaint
    /\ ext = IdleExt
    /\ client = IdleClient

NextClient ==
    \/ Tick
    \/ \E kind \in {"formula", "cask"} : Publish(kind)
    \/ NewClientCmd
    \/ \E run \in Runs, decodeOk \in BOOLEAN : GetSearchIndexCmd(run, decodeOk)
    \/ \E run \in Runs, decodeOk \in BOOLEAN, loadOk \in BOOLEAN :
          GetPrefixIndexCmd(run, decodeOk, loadOk)
    \/ \E run \in Runs, decodeOk \in BOOLEAN : ForceRefreshIndexCmd(run, decodeOk)
    \/ \E run \in Runs : LoadIndexCmd(run)

SpecClient == InitClient /\ [][NextClient]_vars

(***************************************************************************)
(* Claims about the install pipeline and the link farm                     *)
(***************************************************************************)
QueueSet == {inst.queue[i] : i \in DOMAIN inst.queue}
DepsOf(n) == {catalog[n][i] : i \in DOMAIN catalog[n]}
PositionOf(n) == CHOOSE i \in DOMAIN inst.queue : inst.queue[i] = n

\* the queued packages reachable from the set R over dependencies
RECURSIVE QueuedClosure(_)
QueuedClosure(R) ==
    LET R2 == R \cup {d \in QueueSet : \E n \in R : d \in DepsOf(n)} IN
    IF R2 = R THEN R ELSE QueuedClosure(R2)

\* no queued package depends on itself, directly or through queued packages
QueueAcyclic ==
    \A n \in QueueSet : n \notin QueuedClosure(DepsOf(n) \cap QueueSet)

DependenciesFirst ==
    \A n \in QueueSet : \A d \in DepsOf(n) \cap QueueSet : PositionOf(d) < PositionOf(n)

\* C7 as stated: in the install queue every dependency of a queued package
\* that is itself queued appears earlier in the queue.
C7_QueueIsTopologicalOrder ==
    inst.phase = "installing" => DependenciesFirst

\* C7 amended: when the dependencies among the queued packages have no cycle,
\* every dependency of a queued package that is itself queued appears earlier
\* in the queue.
C7_AcyclicQueueIsTopologicalOrder ==
    (inst.phase = "installing" /\ QueueAcyclic) => DependenciesFirst

\* C7 witness: a queue of three packages without a cycle in which the last
\* package depends on two queued packages.
C7_Witness ==
    /\ inst.phase = "installing"
    /\ Len(inst.queue) = 3
    /\ QueueAcyclic
    /\ Cardinality(DepsOf(inst.queue[3]) \cap QueueSet) = 2

\* the keg of p is in the cellar and its bottle in the cache
Extracted(p) == p \in cache /\ cellar[p] # <<>> /\ StableVersion \in cellar[p][1]
\* the opt link of p points at its keg
Linked(p) == prefix[<<"opt", p>>] = Symlink(CellarPath(p, StableVersion))

\* C8 as stated: when the install of a package fails, every other package of
\* the queue is still downloaded, extracted and linked, and the command
\* reports the failure.
C8_SiblingsInstalledAndLinked ==
    (inst.phase = "done" /\ inst.failed # {}) =>
        /\ inst.result = "err"
        /\ \A p \in QueueSet \ inst.failed : Extracted(p) /\ Linked(p)

\* the positions of the queue whose bottle holds the path
Claimants(path) == {i \in DOMAIN inst.queue : path \in bottle[inst.queue[i]]}

\* C9: after the link phase a path claimed by several packages of the install
\* is a symlink into the keg of the first claimant in queue order.
C9_FirstClaimantOwnsContestedPath ==
    (inst.phase = "done" /\ inst.result = "ok") =>
        \A path \in LinkPaths :
            Cardinality(Claimants(path)) >= 2 =>
                \E i \in Claimants(path) :
                    /\ \A j \in Claimants(path) : i <= j
                    /\ prefix[path] = Symlink(KegFile(inst.queue[i], StableVersion, path))

\* C10: Unlink(name) changes only symlinks whose target lies in the keg of
\* name, and removes them; every other entry of the prefix tree stays.
C10_UnlinkRemovesOnlyKegLinks ==
    [][ op'.kind = "unlink" =>
          \A p \in PrefixPaths :
              prefix'[p] # prefix[p] =>
                  /\ prefix[p].kind = "symlink"
                  /\ HasCellarPrefix(prefix[p].target, op'.name)
                  /\ prefix'[p] = Absent
      ]_vars

\* no entry of the prefix tree is a symlink into a keg of name
NoLinkInto(pf, name) ==
    \A p \in PrefixPaths :
        ~(pf[p].kind = "symlink" /\ HasCellarPrefix(pf[p].target, name))

\* C11: for an installed keg that is not linked, Link of the keg followed by
\* Unlink of the keg leaves the prefix tree exactly as it was before the link.
C11_LinkThenUnlinkRestoresPrefix ==
    \A keg \in Names :
        (findInstalledVersion(keg) # <<>> /\ NoLinkInto(prefix, keg)) =>
            Unlink(Link(prefix, keg, findInstalledVersion(keg)[1]).prefix, keg).prefix
                = prefix

\* C12: when uninstall of a package has completed, its keg directory is gone
\* and no symlink of the prefix tree points into it.
C12_UninstallLeavesNoLinks ==
    (op.kind = "uninstall" /\ op.err = Nil) =>
        /\ cellar[op.name] = <<>>
        /\ NoLinkInto(prefix, op.name)

\* the directory <Cellar>/<n> exists
KegDirExists(n) == cellar[n] # <<>>

\* C13: an install command whose packages are all installed already makes no
\* bottle request and changes nothing in the cellar, the cache or the prefix
\* tree; it returns at once without an install queue.
C13_ReinstallChangesNothing ==
    [][ ( /\ inst.phase \in {"idle", "done"}
          /\ inst'.packages # <<>>
          /\ \A i \in DOMAIN inst'.packages : KegDirExists(inst'.packages[i]) )
        => ( /\ inst'.phase = "done"
             /\ inst'.result = "ok"
             /\ inst'.queue = <<>>
             /\ inst'.pending = {}
             /\ cache' = cache
             /\ cellar' = cellar
             /\ prefix' = prefix )
      ]_vars

\* C13 witness: an install command returned at once for a package that an
\* earlier command had installed and linked.
C13_Witness ==
    /\ inst.phase = "done"
    /\ inst.result = "ok"
    /\ inst.queue = <<>>
    /\ Len(inst.packages) = 1
    /\ Extracted(inst.packages[1])
    /\ Linked(inst.packages[1])

\* the entry is a symlink into a keg of name
LinksInto(entry, name) == entry.kind = "symlink" /\ HasCellarPrefix(entry.target, name)

\* C14: while a package is in the pinned file no step of an upgrade downloads
\* its bottle, changes its keg or creates or retargets a link into its keg,
\* and an upgrade that names a pinned package, or that runs without arguments
\* while a pinned package is outdated, leaves the package out of the upgrade
\* queue and, unless the command ends with an error, reports it as skipped.
C14_UpgradeSkipsPinned ==
    [][ \A n \in pinned \cap pinned' :
          /\ cellar'[n] = cellar[n]
          /\ (n \in cache') = (n \in cache)
          /\ \A path \in PrefixPaths :
                LinksInto(prefix'[path], n) => prefix'[path] = prefix[path]
          /\ (inst.phase = "idle" /\ pinned' = pinned) =>
                /\ n \notin SeqRange(inst'.queue)
                /\ ( /\ inst'.result # "err"
                     /\ \/ n \in SeqRange(inst'.packages)
                        \/ inst'.packages = <<>> /\ n \in SeqRange(GetOutdated) )
                   => \E i \in DOMAIN warnings' : warnings'[i] = [skippingPinned |-> n]
      ]_vars

(***************************************************************************)
(* Claims about the retry wrapper                                          *)
(***************************************************************************)
\* an invocation of the operation succeeded
RetrySucceeded == \E i \in DOMAIN retry.outcomes : retry.outcomes[i] = "ok"

\* at most MaxAttempts invocations; a success is the last invocation and is
\* what the wrapper returns
RetryStopsAtSuccess ==
    /\ retry.calls <= retry.MaxAttempts
    /\ \A i \in DOMAIN retry.outcomes :
          retry.outcomes[i] = "ok" =>
             /\ i = Len(retry.outcomes)
             /\ retry.pc = "done"
             /\ retry.err = NoError
             /\ retry.form = "WithResult" => retry.result = i

\* the wrapper returned the error of the last of exactly MaxAttempts invocations
RetryExhausted ==
    /\ retry.calls = retry.MaxAttempts
    /\ retry.err = FnError(retry.outcomes[retry.calls], retry.calls)

\* C15 as stated: the operation is invoked at most MaxAttempts times, the
\* first success ends the call and is returned, and when every attempt failed
\* the wrapper returns the last error after exactly MaxAttempts invocations.
C15_RetryUpToMaxAttempts ==
    /\ RetryStopsAtSuccess
    /\ (retry.pc = "done" /\ retry.outcomes # <<>> /\ ~RetrySucceeded) => RetryExhausted

\* C15 amended: the same, where the last error after exactly MaxAttempts
\* invocations is promised only when the context was not cancelled and no
\* attempt returned a NonRetryable error.
C15_RetryUpToMaxAttemptsUnlessStopped ==
    /\ RetryStopsAtSuccess
    /\ ( /\ retry.pc = "done"
         /\ retry.outcomes # <<>>
         /\ ~RetrySucceeded
         /\ ~retry.cancelled
         /\ \A i \in DOMAIN retry.outcomes : retry.outcomes[i] # "nonretryable" )
       => RetryExhausted

\* C15 witness: every one of three attempts failed and the wrapper returned
\* the third error.
C15_Witness ==
    /\ retry.pc = "done"
    /\ retry.MaxAttempts = 3
    /\ retry.outcomes = <<"err", "err", "err">>
    /\ retry.err = OpError(3)
    /\ ~retry.cancelled

\* C16: when the first invocation returns a NonRetryable error the wrapper,
\* in either form, returns that error at once: one invocation, no backoff wait.
C16_NonRetryableStopsAtOnce ==
    (retry.outcomes # <<>> /\ retry.outcomes[1] = "nonretryable") =>
        /\ retry.pc = "done"
        /\ retry.calls = 1
        /\ retry.waits = 0
        /\ retry.err = NonRetryable(OpError(1))

\* C17: after the context is cancelled the operation is not invoked again,
\* and when the cancellation arrived before an attempt or during a backoff
\* wait the wrapper returns the cancellation error of the context.
C17_CancelStopsRetry ==
    retry.cancelled =>
        /\ retry.calls = retry.callsAtCancel
        /\ (retry.cancelledAt \in {"top", "wait"} /\ retry.pc = "done")
              => retry.err = ContextCanceled

\* C17 witness: the context was cancelled during the backoff wait after a
\* failed attempt, with attempts left, and the wrapper has returned.
C17_Witness ==
    /\ retry.pc = "done"
    /\ retry.cancelledAt = "wait"
    /\ retry.calls = 1
    /\ retry.MaxAttempts = 3
    /\ retry.err = ContextCanceled


(***************************************************************************)
(* Claims about the progress events                                        *)
(***************************************************************************)

\* the channel's buffer holds as many events as it has room for
BufferFull(ch) == Len(ch.buf) >= ch.cap

\* the step is the select of trySend on the manager's channel
IsTrySendStep == progress.tracker.pc = "sending" /\ progress'.tracker.pc = "idle"

\* the step is the select of Publish on subscriber id's channel
IsPublishStep(id) ==
    /\ progress.router.pc = "publishing"
    /\ id \in progress.router.todo
    /\ progress'.router.pc = "receive" \/ id \notin progress'.router.todo

\* C18: publishing a progress event never blocks the publisher. A tracker
\* in trySend and a router in Publish can always take their next step,
\* whatever the consumers do; on a channel whose buffer is full the step
\* leaves the buffer as it was (the event is dropped for that channel unless
\* a receiver is waiting for it) and the call goes on: trySend returns,
\* Publish moves to the next subscriber.
C18_PublishNeverBlocks ==
    /\ [](progress.tracker.pc = "sending" => ENABLED (\E d \in BOOLEAN : TrySend(d)))
    /\ [](progress.router.pc = "received" => ENABLED PublishBegin)
    /\ [](progress.router.pc = "publishing" =>
            /\ progress.router.todo # {}
            /\ \A id \in progress.router.todo : ENABLED (\E d \in BOOLEAN : PublishOne(id, d)))
    /\ [][/\ (IsTrySendStep /\ ~progress.events.closed /\ BufferFull(progress.events)) =>
              progress'.events.buf = progress.events.buf
          /\ \A id \in SubIds :
               (IsPublishStep(id) /\ BufferFull(progress.channels[id][1])) =>
                 progress'.channels[id] = progress.channels[id]]_vars

\* an event was dropped on a full subscriber channel while the manager's
\* channel was full too, no consumer having read, and both calls returned
C18_Witness ==
    /\ progress.last = [op |-> "publish", full |-> TRUE]
    /\ progress.router.pc = "receive"
    /\ progress.tracker.pc = "idle"
    /\ progress.events.cap > 0
    /\ BufferFull(progress.events)
    /\ \E id \in SubIds :
         /\ progress.channels[id] # <<>>
         /\ progress.channels[id][1].cap > 0
         /\ BufferFull(progress.channels[id][1])


\* C19: closing a SafeEventChannel more than once is safe. No Close and no
\* Send panics, however the calls of the goroutines interleave; a Close that
\* finds the channel closed leaves it as it is; once a Close has returned the
\* channel is closed, and a Send that starts after that returns false.
C19_DoubleCloseSafe ==
    /\ [](~sec.panicked)
    /\ [](sec.closeReturned => (sec.closed /\ sec.ch.closed))
    /\ [](\A x \in Goroutines :
            (sec.g[x].op = "Send" /\ sec.g[x].afterClose /\ sec.g[x].pc \in {"unlock", "idle"})
                => sec.g[x].ret = "false")
    /\ [][\A x \in Goroutines :
            (sec.g[x].op = "Close" /\ sec.g[x].afterClose /\ sec.g[x].pc # "idle")
                => sec'.ch = sec.ch \/ sec'.ch.closed]_vars

\* a second Close has returned after the first, and a Send that started after
\* a Close has returned as well, while the other goroutine was in a call
C19_Witness ==
    /\ ~sec.panicked
    /\ \E x, y \in Goroutines :
         /\ x # y
         /\ sec.g[x] = [IdleGoroutine EXCEPT !.op = "Close", !.afterClose = TRUE]
         /\ sec.g[y].op = "Send"
         /\ sec.g[y].afterClose
         /\ sec.g[y].pc = "unlock"
         /\ sec.g[y].ret = "false"


(***************************************************************************)
(* Claims about the prefix index                                           *)
(***************************************************************************)

\* the names of the items the last search returned
ReturnedNames ==
    IF search.op = "SearchPrefix"
    THEN {search.found[i].Name : i \in DOMAIN search.found}
    ELSE {search.items[search.matches[i].Index + 1].Name : i \in DOMAIN search.matches}

\* every returned item is one of the indexed items
ReturnedAreItems ==
    /\ \A i \in DOMAIN search.found :
         \E k \in DOMAIN search.items : search.items[k] = search.found[i]
    /\ \A i \in DOMAIN search.matches :
         /\ search.matches[i].Index \in 0..(Len(search.items) - 1)
         /\ SourceString(search.items[search.matches[i].Index + 1]) = search.matches[i].Str

\* C20: for every query q of length at least 2, every item SearchPrefix or
\* SearchFuzzy returns is one of the indexed items, and its name, letter
\* case set aside, contains the lower-cased q as a substring.
C20_ResultsContainQuery ==
    (search.op \in {"SearchPrefix", "SearchFuzzy"} /\ Len(search.q) >= minPrefixLength) =>
        /\ ReturnedAreItems
        /\ \A name \in ReturnedNames : Contains(ToLower(name), ToLower(search.q))


(***************************************************************************)
(* Claims about the install pipeline: parallelism, cancellation, re-runs   *)
(***************************************************************************)

\* C21: at every moment the number of bottle downloads in flight in the
\* install pipeline is at most the configured parallel_downloads value, as
\* GetParallelDownloads clamps it and cmd/install.go stores it in MaxParallel.
C21_DownloadsWithinParallel ==
    /\ inst.maxParallel \in 1..20
    /\ Cardinality(inst.inflight) <= inst.maxParallel


\* the kegs in the cellar and the links in the prefix stay as they are
KegsAndLinksKept ==
    /\ \A n \in Names : cellar[n] # <<>> =>
          (cellar'[n] # <<>> /\ cellar[n][1] \subseteq cellar'[n][1])
    /\ \A q \in PrefixPaths : prefix[q] # Absent => prefix'[q] = prefix[q]

\* C22: once the caller has cancelled an install, the pipeline submits no
\* further task (no install goroutine gets a slot, no link is started), the
\* phase ends with a Cancelled result, and the kegs extracted and the links
\* created before stay in place.
C22_CancelStopsPipeline ==
    [][inst.cancel =>
         /\ inst'.inflight \subseteq inst.inflight
         /\ prefix' = prefix
         /\ (inst.phase # "done" /\ inst'.phase = "done") => inst'.result = "cancelled"
         /\ KegsAndLinksKept]_vars


(***************************************************************************)
(* Claims about the maintenance commands                                   *)
(***************************************************************************)

\* the cellar, the prefix and the cache hold what they held
DiskUnchanged ==
    /\ cellar' = cellar
    /\ prefix' = prefix
    /\ cache' = cache
    /\ maint'.cacheDir = maint.cacheDir
    /\ maint'.files = maint.files
    /\ maint'.tarball = maint.tarball

\* C23: running the doctor diagnostics or the cache validation (ValidateAll,
\* CheckAndRepair) changes nothing on disk: nothing in the cellar, the prefix
\* or the cache is created, modified or removed; only cleanup removes.
C23_ValidationReadOnly ==
    [][(maint.op = "none" /\ maint'.op \in {"doctor", "validate", "repair"}) => DiskUnchanged]_vars

\* C24: doctor exits with code 1 if and only if at least one of its nine
\* checks reports a status other than OK, and with code 0 when all are OK.
C24_DoctorExitCode ==
    maint.op = "doctor" =>
        /\ Len(maint.results) = 9
        /\ maint.exit = <<IF \E i \in DOMAIN maint.results : maint.results[i] # StatusOK
                          THEN 1 ELSE 0>>

\* C24 as amended: when no Homebrew prefix can be found, doctor exits with
\* code 1 without running a check; otherwise it runs its nine checks and
\* exits with code 1 if and only if at least one of them reports a status
\* other than OK, and with code 0 when all are OK.
C24_DoctorExitCodeWithClient ==
    maint.op = "doctor" =>
        IF NewClient(maint)
        THEN /\ Len(maint.results) = 9
             /\ maint.exit = <<IF \E i \in DOMAIN maint.results : maint.results[i] # StatusOK
                               THEN 1 ELSE 0>>
        ELSE /\ maint.results = NoResults
             /\ maint.exit = <<1>>

\* the doctor has exited with 1 on a warning without any error
C24_Witness ==
    /\ maint.op = "doctor"
    /\ maint.exit = <<1>>
    /\ \E i \in DOMAIN maint.results : maint.results[i] = StatusWarning
    /\ \A i \in DOMAIN maint.results : maint.results[i] # StatusError


(***************************************************************************)
(* Claims about the parallel link phase                                    *)
(***************************************************************************)

\* the packages linkParallel put into its parallel queue
ParallelQueue ==
    {inst.queue[i] : i \in DOMAIN inst.queue} \ GetConflictingPackages(inst.tracker)

\* the destinations Link creates or replaces for a package
Destinations(name) == KegPaths(name, StableVersion) \cup {<<"opt", name>>}

\* neither is a destination of b, or a directory above one
Apart(pa, pb) == pa # pb /\ ~IsBelow(pb, pa) /\ ~IsBelow(pa, pb)

\* the packages of a set linked one after the other in the order of NameOrder
RECURSIVE LinkInNameOrder(_, _, _)
LinkInNameOrder(pf, names, order) ==
    IF order = <<>> THEN pf
    ELSE LinkInNameOrder(IF Head(order) \in names
                         THEN LinkTree(pf, Head(order), StableVersion, FALSE).prefix
                         ELSE pf,
                         names, Tail(order))

\* C25: any two packages linked in the parallel phase write to disjoint sets
\* of destinations, none of which lies below a destination of the other, so
\* the tree the parallel phase leaves is the one linking them in any fixed
\* order leaves.
C25_ParallelLinksDisjoint ==
    inst.phase = "linking" =>
        /\ \A a, b \in ParallelQueue :
              a # b => \A pa \in Destinations(a), pb \in Destinations(b) : Apart(pa, pb)
        /\ (inst.parallel = {} /\ Len(inst.sequential) =
               Cardinality({inst.queue[i] : i \in DOMAIN inst.queue} \ ParallelQueue))
              => prefix = LinkInNameOrder(EmptyTree, ParallelQueue, NameOrder)


(***************************************************************************)
(* Claims about the resolver and about re-runs of install                  *)
(***************************************************************************)

\* the names reached from a set along the dependencies of the catalog
RECURSIVE DepClosure(_, _)
DepClosure(names, steps) ==
    IF steps = 0 THEN names
    ELSE DepClosure(names \cup {d \in Names : \E n \in names : d \in SeqRange(catalog[n])},
                    steps - 1)

\* C26: when a requested package, or a package of its closure, is under the
\* Cellar and one of its dependencies is not, the run puts that dependency
\* into its install set.
C26_MissingDepOfInstalledIsQueued ==
    (inst.phase \in {"installing", "done"} /\ inst.result # "err") =>
        \A p \in DepClosure(SeqRange(inst.packages), Cardinality(Names)) :
            \A d \in SeqRange(catalog[p]) :
                (isInstalled(p) /\ ~isInstalled(d)) => d \in SeqRange(inst.queue)


\* the keg of the stable version is under the Cellar
HasKeg(name) == cellar[name] # <<>> /\ StableVersion \in cellar[name][1]

\* <prefix>/opt/<name> points to the keg of the stable version
OptLinked(name) == prefix[<<"opt", name>>] = Symlink(CellarPath(name, StableVersion))

\* C27: an install command that returns without error, also one that is the
\* re-run of a failed command, leaves every requested package and every
\* dependency in the Cellar and linked: no extracted keg stays unlinked.
C27_RerunCompletesInstall ==
    (inst.phase = "done" /\ inst.result = "ok") =>
        \A p \in DepClosure(SeqRange(inst.packages), Cardinality(Names)) :
            HasKeg(p) /\ OptLinked(p)


(***************************************************************************)
(* Claims about ExtractAndInstallBottle                                    *)
(***************************************************************************)

\* C28: <Cellar>/<name>/<version> is absent or holds the whole tree of the
\* bottle, in particular whenever ExtractAndInstallBottle has returned, with
\* or without an error; the Cellar lists the version exactly when it is there.
C28_KegAbsentOrComplete ==
    \A n \in Names :
        /\ ext[n].tree \in {<<>>, <<bottle[n]>>}
        /\ ext[n].tree # <<>> <=> HasKeg(n)

\* a call failed after a part of the archive was unpacked, another call put
\* a keg in place of an older one
C28_Witness ==
    /\ \E n \in Names : ext[n].pc = "returned" /\ ext[n].err = "extraction failed"
                        /\ ext[n].tree = <<bottle[n]>>
    /\ \E n \in Names : ext[n].pc = "returned" /\ ext[n].err = "nil"
    /\ \E n \in Names : ext[n].pc = "returned" /\ ext[n].tree = <<>>
                        /\ ext[n].err = "failed to move extracted package into place"


\* C29: an install command short-circuits a requested package as installed
\* only if a version directory of it is under the Cellar; a package whose
\* move into place failed, so that none is, is queued again by the next run.
C29_NoKegIsInstalledAgain ==
    [][(inst.phase \in {"idle", "done"} /\ inst' # inst /\ inst'.result # "err") =>
          \A p \in SeqRange(inst'.packages) :
              (cellar[p] = <<>> \/ cellar[p][1] = {}) => p \in SeqRange(inst'.queue)]_vars


(***************************************************************************)
(* Claims about the validators of a resumed download                       *)
(***************************************************************************)

\* the partial file is larger than the total size the sidecar recorded
PartialExceedsTotal(pd) ==
    pd # <<>> /\ file # <<>> /\ pd[1].TotalSize > 0 /\ Len(file[1]) > pd[1].TotalSize

\* the sidecar a first attempt leaves when the transfer starts
FreshSidecar(url) == Save(UpdateState(NewPartialDownload(url), StateInProgress).pd)

\* C30: when the Last-Modified or ETag of the response differs from the one
\* in the sidecar loaded for the attempt, or the partial file is larger than
\* the total size of that sidecar, the sidecar and the partial file are
\* discarded: the transfer starts from byte 0 on an empty file, with the
\* sidecar of a first attempt.
C30_ChangedRemoteRestartsDownload ==
    [][(pc = "created" /\ pc' = "streaming" /\ dl.pd # <<>>
        /\ (CheckRemoteFileChanged(dl.pd, dl.lastModified, dl.etag) \/ PartialExceedsTotal(dl.pd)))
          => /\ dl'.downloaded = 0
             /\ file' = << <<>> >>
             /\ [sidecar'[1] EXCEPT !.TotalSize = 0, !.ETag = "", !.LastModified = ""]
                   = FreshSidecar(dl.url)[1]]_vars


(***************************************************************************)
(* Claims about the end of a download                                      *)
(***************************************************************************)

\* C31: when the bytes written do not have the expected SHA-256, the call
\* returns an error, the destination file is deleted and the sidecar is on
\* disk in state Failed.
C31_MismatchDeletesAndFails ==
    [][(pc = "streaming" /\ pc' = "idle" /\ ret'.status # "none"
        /\ ret'.err \notin {"read failed", "write failed"}
        /\ verifyChecksum(file, dl.sha) # Nil)
          => /\ ret'.status = "err"
             /\ ret'.err = "checksum mismatch"
             /\ file' = <<>>
             /\ Exists(sidecar')
             /\ Load(sidecar').State = StateFailed]_vars

\* a transfer that reused the sidecar of an earlier attempt ended with a
\* checksum mismatch
C31_Witness ==
    /\ pc = "idle"
    /\ ret.err = "checksum mismatch"
    /\ file = <<>>
    /\ Exists(sidecar)
    /\ Load(sidecar).State = StateFailed
    /\ Len(Load(sidecar).StateHistory) >= 5


(***************************************************************************)
(* Claims about the goroutines of the install phase                        *)
(***************************************************************************)

\* the goroutines of the install phase that hold a slot, by their place in
\* the queue
ActiveDownloaders == {i \in DOMAIN inst.queue : inst.queue[i] \in inst.inflight}

\* C32: within one install or upgrade run no two active downloaders have the
\* same destination <cache>/<name>-<version>.bottle, whose sidecar is named
\* after it.
C32_OneWriterPerDestination ==
    \A i, j \in ActiveDownloaders :
        i # j => BottleDest(inst.queue[i]) # BottleDest(inst.queue[j])

\* two goroutines of a run are downloading side by side
C32_Witness ==
    /\ inst.phase = "installing"
    /\ Cardinality(ActiveDownloaders) >= 2
    /\ inst.packages # <<>>
    /\ Len(inst.packages) < Len(inst.queue)


(***************************************************************************)
(* Claims about the traversals of the dependency graph                     *)
(***************************************************************************)

\* no name occurs twice in a list of expansions
NoRepeat(visits) == \A i, j \in DOMAIN visits : i # j => visits[i] # visits[j]

\* C33: on every catalog, cyclic or not, the closure, the queue-building
\* pass, ResolveDeps and the orphan computation come to an end having
\* expanded every package name at most once.
C33_TraversalsVisitOnce ==
    /\ inst.packages # <<>> =>
          LET closure == collectNeededVisitsAll(inst.packages, [needed |-> {}, visits |-> <<>>])
              pass == buildQueueVisitsAll(inst.packages,
                                          [visited |-> {}, queue |-> <<>>, visits |-> <<>>],
                                          closure.needed)
          IN /\ NoRepeat(closure.visits)
             /\ NoRepeat(pass.visits)
             /\ closure.needed = collectNeededAll(inst.packages, {})
             /\ inst.phase = "installing" => pass.queue = inst.queue
    /\ op.kind \in {"deps", "autoremove"} => NoRepeat(op.visits)

\* the traversals ran on a catalog with a cycle through the requested package
C33_Witness ==
    /\ op.kind = "deps"
    /\ \E n \in SeqRange(op.packages) : n \in SeqRange(op.result)
    /\ Len(op.visits) = Cardinality(Names)


(***************************************************************************)
(* Claims about the order of the phases of one install run                 *)
(***************************************************************************)

\* some entry of the prefix points into the keg of the package
LinkedInto(pf, name) ==
    \E path \in DOMAIN pf : pf[path].kind = "symlink" /\ HasCellarPrefix(pf[path].target, name)

\* C34: in an install run the metadata of a package is fetched before its
\* bottle is downloaded, the bottle is downloaded before it is extracted, and
\* it is extracted before any of its links is made: a tarball enters the
\* cache only for a package of the queue the fetch produced; a step that
\* touches the package's directory in the Cellar finds the tarball in the
\* cache already; a step that makes the first link of a package finds its
\* keg in place and no extraction still running.
C34_PhasesInOrder ==
    [][\A p \in Names :
          /\ (p \notin cache /\ p \in cache')
                => (p \in SeqRange(inst.queue) /\ inst.phase = "installing")
          /\ (cellar'[p] # cellar[p])
                => (p \in cache /\ p \in SeqRange(inst.queue) /\ inst.phase = "installing")
          /\ (~LinkedInto(prefix, p) /\ LinkedInto(prefix', p))
                => (HasKeg(p) /\ p \in cache /\ inst.phase = "linking" /\ inst.pending = {})]_vars

\* a run fetched, downloaded, extracted and linked a package and its
\* dependencies
C34_Witness ==
    /\ inst.phase = "done"
    /\ inst.result = "ok"
    /\ Len(inst.queue) = Cardinality(Names)
    /\ \A p \in Names : HasKeg(p) /\ p \in cache /\ LinkedInto(prefix, p)


(***************************************************************************)
(* Claims about the paths ExtractBottle writes                             *)
(***************************************************************************)

\* C35: every file, directory and link the extraction of an archive creates
\* or writes lies below the extraction root, also when the path of a header
\* passes through a symbolic link an earlier header of the archive made.
C35_ExtractionStaysInRoot ==
    op.kind = "tar" => \A at \in op.fs.written : IsBelow(at, ExtractRoot)


(***************************************************************************)
(* Claims about the cleanup command                                        *)
(***************************************************************************)

\* the version the opt link of a package points to, when its directory exists
LinkedVersion(p) ==
    IF /\ prefix[<<"opt", p>>].kind = "symlink"
       /\ HasCellarPrefix(prefix[<<"opt", p>>].target, p)
       /\ cellar[p] # <<>>
       /\ prefix[<<"opt", p>>].target[3] \in cellar[p][1]
    THEN <<prefix[<<"opt", p>>].target[3]>> ELSE <<>>

\* C36: cleanup keeps the version directory the opt link and the prefix
\* symlinks of a package point to, and removes or breaks none of these links.
C36_CleanupKeepsLinkedVersion ==
    [][(maint.op = "none" /\ maint'.op = "cleanup")
         => \A p \in Names :
               LinkedVersion(p) # <<>> =>
                  /\ cellar'[p] # <<>>
                  /\ LinkedVersion(p)[1] \in cellar'[p][1]
                  /\ \A path \in DOMAIN prefix :
                        (/\ prefix[path].kind = "symlink"
                         /\ HasCellarPrefix(prefix[path].target, p)
                         /\ prefix[path].target[3] = LinkedVersion(p)[1])
                          => prefix'[path] = prefix[path]]_vars


(***************************************************************************)
(* Claims about the catalogs and the derived index files                   *)
(***************************************************************************)

\* the catalogs the cache directory holds
Catalogs == {"formula.json.zst", "cask.json.zst"}

\* C37: a search that succeeds serves search.gob.zst only when the file is
\* strictly later than every catalog on disk, and the items it returns are
\* those of the catalogs on disk, never those of a catalog rewritten since.
C37_StaleIndexIsRebuilt ==
    (client.call.op = "GetSearchIndex" /\ client.call.err = Nil)
      => /\ client.call.cached =>
               \A f \in Catalogs :
                  client.disk[f] # <<>> =>
                     client.disk["search.gob.zst"][1].mtime > client.disk[f][1].mtime
         /\ client.call.items = <<LoadRawIndex(client.disk)>>

\* C38: after a first GetPrefixIndex call of a client that failed, a later
\* call on the client returns an error or a built index, never an index
\* that was not built.
C38_NoEmptyIndexAfterFailure ==
    (client.call.op = "GetPrefixIndex" /\ client.first = "err" /\ client.call.err = Nil)
      => (client.call.index # <<>> /\ client.call.index[1].built)


(***************************************************************************)
(* Claims about closing the progress manager                               *)
(***************************************************************************)

\* C39: neither a second Manager.Close nor a Start, Update, Complete or Error
\* of a tracker after the manager was closed panics.
C39_CloseAndReportNeverPanic == progress.last.op # "panic"

\* C40: after BuildIndex(items) every item of the backing vector is in at
\* least one bucket of the prefix index, however long its name is.
C40_EveryItemIndexed ==
    \A idx \in 0..(Len(search.items) - 1) :
       \E key \in DOMAIN search.prefixes :
          \E i \in DOMAIN search.prefixes[key] : search.prefixes[key][i] = idx

====
